---------------------------- MODULE Spec2Model ----------------------------
(***************************************************************************)
(* A model of the partkit/cli command line parser: the CliParser class of  *)
(* src/src/parser/parser.ts with the flag grammar, the type parsers, the   *)
(* builtin commands and the error classes it uses.                         *)
(*                                                                         *)
(* JavaScript strings are sequences of one-character strings, so that the  *)
(* regular expressions of the flag grammar, String.split and parseFloat    *)
(* are computed on characters.  JavaScript objects are functions from keys *)
(* to values; a key that is present with the value undefined differs from  *)
(* a key that is absent.                                                    *)
(***************************************************************************)
EXTENDS Integers, Sequences, FiniteSets, TLC

---------------------------------------------------------------------------
(* Bounds of the model.                                                    *)

\* the longest arguments array handed to run()
MaxArgv == 3

\* the longest string that the flag grammar is applied to on its own
MaxFlagLen == 6

\* the longest string that a type parser is applied to on its own
MaxValueLen == 5

---------------------------------------------------------------------------
(* JavaScript values.                                                      *)

Undefined == [t |-> "undefined", v |-> <<>>]

Null == [t |-> "null", v |-> <<>>]

Str(s) == [t |-> "string", v |-> s]

Num(n) == [t |-> "number", v |-> n]

NaN == [t |-> "NaN", v |-> <<>>]

Bool(b) == [t |-> "boolean", v |-> b]

Arr(s) == [t |-> "array", v |-> s]

\* an object without own properties, {} or a Map without entries
EmptyObject == [k \in {} |-> Undefined]

\* obj[key] = value, keeping the other keys
Put(obj, key, value) ==
    [k \in (DOMAIN obj) \cup {key} |-> IF k = key THEN value ELSE obj[k]]

\* obj[key], which is undefined for a key the object does not have
Get(obj, key) == IF key \in DOMAIN obj THEN obj[key] ELSE Undefined

\* { ...a, ...b }
Spread(a, b) ==
    [k \in (DOMAIN a) \cup (DOMAIN b) |-> IF k \in DOMAIN b THEN b[k] ELSE a[k]]

\* the elements of a sequence
Range(s) == { s[i] : i \in DOMAIN s }

---------------------------------------------------------------------------
(* src/utils.ts                                                            *)

\* alias and short are kept as arrays: a single string is an array of one,
\* undefined the empty array
coerceArray(value) == value

---------------------------------------------------------------------------
(* src/src/parser/flag.ts                                                  *)

Digits == {"0", "1", "2", "3", "4", "5", "6", "7", "8", "9"}

\* the characters matched by \s that the model's strings can hold
WhiteSpace == {" "}

LONG_FLAG_PREFIX == <<"-", "-">>

SHORT_FLAG_PREFIX == <<"-">>

NEGATED_FLAG_PREFIX == <<"-", "-", "n", "o", "-">>

\* value starts with prefix
StartsWith(value, prefix) ==
    /\ Len(value) >= Len(prefix)
    /\ SubSeq(value, 1, Len(prefix)) = prefix

\* the text matched by \D[^\s]* at the start of rest, <<>> if \D does not match
NonDigitWord(rest) ==
    IF rest = <<>> \/ rest[1] \in Digits
    THEN <<>>
    ELSE LET stops == { i \in 2..Len(rest) : rest[i] \in WhiteSpace }
             last == IF stops = {} THEN Len(rest)
                     ELSE (CHOOSE i \in stops : \A j \in stops : i <= j) - 1
         IN SubSeq(rest, 1, last)

\* /^--(\D[^\s]*)/.test(value)
LONG_FLAG_REGEXP(value) ==
    /\ StartsWith(value, <<"-", "-">>)
    /\ NonDigitWord(SubSeq(value, 3, Len(value))) # <<>>

\* the short flag expression taking any character after the "-": /^-(.)/
SHORT_FLAG_REGEXP_AnyCharacter(value) ==
    /\ StartsWith(value, <<"-">>)
    /\ Len(value) >= 2

\* /^-(\D)/.test(value)
SHORT_FLAG_REGEXP(value) ==
    /\ StartsWith(value, <<"-">>)
    /\ Len(value) >= 2
    /\ value[2] \notin Digits

\* /^--no-(\D[^\s]*)/.test(value)
NEGATED_FLAG_REGEXP(value) ==
    /\ StartsWith(value, <<"-", "-", "n", "o", "-">>)
    /\ NonDigitWord(SubSeq(value, 6, Len(value))) # <<>>

\* isFlag taking every string that starts with "-" for a flag
isFlag_AnyDash(value) == StartsWith(value, <<"-">>)

isFlag(value) == LONG_FLAG_REGEXP(value) \/ SHORT_FLAG_REGEXP(value)

isLongFlag(value) == LONG_FLAG_REGEXP(value)

isShortFlag(value) == SHORT_FLAG_REGEXP(value)

isNegatedFlag(value) == NEGATED_FLAG_REGEXP(value)

\* flag.replace(LONG_FLAG_REGEXP, `${ NEGATED_FLAG_PREFIX }$1`): the match
\* "--" + $1 is replaced, the text after the match is kept; a flag the
\* expression does not match is returned as it is
NegateFlag(flag) ==
    IF LONG_FLAG_REGEXP(flag)
    THEN LET rest == SubSeq(flag, 3, Len(flag))
             word == NonDigitWord(rest)
         IN NEGATED_FLAG_PREFIX \o word \o SubSeq(rest, Len(word) + 1, Len(rest))
    ELSE flag

---------------------------------------------------------------------------
(* src/unnamed/part_005: the type parsers                                  *)

isEmpty(value) == value = Undefined \/ value = Str(<<>>)

\* the value of a string of decimal digits
RECURSIVE DigitsValue(_)
DigitsValue(ds) ==
    IF ds = <<>> THEN 0
    ELSE 10 * DigitsValue(SubSeq(ds, 1, Len(ds) - 1))
         + (CHOOSE d \in 0..9 :
                <<"0", "1", "2", "3", "4", "5", "6", "7", "8", "9">>[d + 1]
                    = ds[Len(ds)])

\* the longest prefix of s made of digits
RECURSIVE DigitPrefix(_)
DigitPrefix(s) ==
    IF s = <<>> \/ s[1] \notin Digits THEN <<>>
    ELSE <<s[1]>> \o DigitPrefix(Tail(s))

\* parseFloat on a string: leading white space is skipped, then an optional
\* sign and the longest run of decimal digits are read; NaN when there is no
\* digit.  Fractions, exponents and Infinity are not part of the strings of
\* this model.
parseFloat(s) ==
    LET RECURSIVE Trim(_)
        Trim(x) == IF x # <<>> /\ x[1] \in WhiteSpace THEN Trim(Tail(x)) ELSE x
        body == Trim(s)
        neg == body # <<>> /\ body[1] = "-"
        signed == body # <<>> /\ body[1] \in {"-", "+"}
        ds == DigitPrefix(IF signed THEN Tail(body) ELSE body)
    IN IF ds = <<>> THEN NaN
       ELSE Num(IF neg THEN 0 - DigitsValue(ds) ELSE DigitsValue(ds))

STRING_PARSER(value) == IF isEmpty(value) THEN Undefined ELSE value

NUMBER_PARSER(value) == IF isEmpty(value) THEN Undefined ELSE parseFloat(value.v)

\* BOOLEAN answering false only for the string "false"
BOOLEAN_PARSER_UndefinedIsTrue(value) ==
    IF value = Str(<<"f", "a", "l", "s", "e">>) THEN Bool(FALSE) ELSE Bool(TRUE)

\* BOOLEAN answering false for the empty string too, as the other type
\* parsers take it for no value
BOOLEAN_PARSER_EmptyIsFalse(value) ==
    IF isEmpty(value) \/ value = Str(<<"f", "a", "l", "s", "e">>)
    THEN Bool(FALSE)
    ELSE Bool(TRUE)

BOOLEAN_PARSER(value) ==
    IF value = Undefined \/ value = Str(<<"f", "a", "l", "s", "e">>)
    THEN Bool(FALSE)
    ELSE Bool(TRUE)

\* String.prototype.split(','): the pieces between the commas, in order
RECURSIVE Split(_)
Split(s) ==
    LET commas == { i \in 1..Len(s) : s[i] = "," }
    IN IF commas = {} THEN <<s>>
       ELSE LET first == CHOOSE i \in commas : \A j \in commas : i <= j
            IN <<SubSeq(s, 1, first - 1)>> \o Split(SubSeq(s, first + 1, Len(s)))

\* the type parsers as values: <<"STRING">>, <<"NUMBER">>, <<"BOOLEAN">> and,
\* for ARRAY(parser), <<"ARRAY", parser>>
STRING_TYPE == <<"STRING">>

NUMBER_TYPE == <<"NUMBER">>

BOOLEAN_TYPE == <<"BOOLEAN">>

ARRAY(parser) == <<"ARRAY", parser>>

\* parser(value) with an ARRAY that keeps the pieces parsed to undefined
RECURSIVE ApplyParser_KeepsUndefined(_, _)
ApplyParser_KeepsUndefined(parser, value) ==
    CASE parser[1] = "STRING" -> STRING_PARSER(value)
      [] parser[1] = "NUMBER" -> NUMBER_PARSER(value)
      [] parser[1] = "BOOLEAN" -> BOOLEAN_PARSER(value)
      [] OTHER ->
            IF isEmpty(value) THEN Undefined
            ELSE LET pieces == Split(value.v)
                 IN Arr([i \in 1..Len(pieces) |->
                            ApplyParser_KeepsUndefined(parser[2], Str(pieces[i]))])

\* parser(value)
RECURSIVE ApplyParser(_, _)
ApplyParser(parser, value) ==
    CASE parser[1] = "STRING" -> STRING_PARSER(value)
      [] parser[1] = "NUMBER" -> NUMBER_PARSER(value)
      [] parser[1] = "BOOLEAN" -> BOOLEAN_PARSER(value)
      [] OTHER ->
            IF isEmpty(value) THEN Undefined
            ELSE LET pieces == Split(value.v)
                     parsed == [i \in 1..Len(pieces) |->
                                   ApplyParser(parser[2], Str(pieces[i]))]
                 IN Arr(SelectSeq(parsed, LAMBDA val : val # Undefined))

---------------------------------------------------------------------------
(* src/unnamed/part_007: the error classes.  A message is the sequence of   *)
(* its fixed text and the strings put into it.                             *)

ParserError(message) == [class |-> "ParserError", message |-> message]

UsageError(message) == [class |-> "UsageError", message |-> message]

RegisterError(message) == [class |-> "RegisterError", message |-> message]

\* new SilentError(): no name, no message, no stack; origin is the parser
\* whose run() created the object, which tells two such objects apart
SilentError(origin) ==
    [class |-> "SilentError", message |-> <<>>, origin |-> origin]

\* parent is undefined or the name of the parent command
INVALID_COMMAND(command, parent) ==
    ParserError(<<Str(<<"Invalid command.">>), Str(command), parent>>)

INVALID_OPTION(option, command) ==
    ParserError(<<Str(<<"Invalid option.">>), Str(option), Str(command)>>)

INVALID_USAGE(parser, api) ==
    UsageError(<<Str(<<"Invalid usage.">>), Str(<<"CliParser">>), Str(api)>>)

DUPLICATE_OPTION(option, conflict) ==
    RegisterError(<<Str(<<"Duplicate option definition.">>), Str(option), Str(conflict)>>)

DUPLICATE_COMMAND(command, conflict) ==
    RegisterError(<<Str(<<"Duplicate command definition.">>), Str(command), Str(conflict)>>)

DUPLICATE_PARSER(command, conflict) ==
    RegisterError(<<Str(<<"Duplicate parser definition.">>), Str(command), Str(conflict)>>)

CONFLICTING_OPTION(flag, conflict) ==
    RegisterError(<<Str(<<"Conflicting option definition.">>), Str(flag), Str(conflict)>>)

CONFLICTING_COMMAND(flag, conflict) ==
    RegisterError(<<Str(<<"Conflicting command definition.">>), Str(flag), Str(conflict)>>)

\* an error of a command handler's own, not one of the classes above
HandlerError == [class |-> "Error", message |-> <<>>]

\* a ParserError that a command handler creates and throws
HandlerParserError == ParserError(<<Str(<<"handler">>)>>)

\* the TypeError of a call on undefined
TypeError == [class |-> "TypeError", message |-> <<>>]

\* instanceof ParserError answering true for every error
IsParserError_AnyError(error) == error.class = error.class

\* error instanceof ParserError
IsParserError(error) == error.class = "ParserError"

---------------------------------------------------------------------------
(* Names and strings of the schemas.                                       *)

HELP_COMMAND_NAME == <<"h", "e", "l", "p">>

VERSION_COMMAND_NAME == <<"v", "e", "r", "s", "i", "o", "n">>

cli == <<"c", "l", "i">>

echo == <<"e", "c", "h", "o">>

deep == <<"d", "e", "e", "p">>

sub == <<"s", "u", "b">>

one == <<"o", "n", "e">>

two == <<"t", "w", "o">>

foo == <<"f", "o", "o">>

foos == <<"f", "o", "o", "s">>

port == <<"p", "o", "r", "t">>

ports == <<"p", "o", "r", "t", "s">>

verbose == <<"v", "e", "r", "b", "o", "s", "e">>

silent == <<"s", "i", "l", "e", "n", "t">>

loud == <<"l", "o", "u", "d">>

bogus == <<"b", "o", "g", "u", "s">>

foobar == <<"f", "o", "o", "b", "a", "r">>

\* the JavaScript string s.charAt(0)
charAt0(s) == <<s[1]>>

---------------------------------------------------------------------------
(* Schemas: option, argument and command definitions.                      *)
(* An object literal is the sequence of its entries [key, def], in the     *)
(* order Object.entries gives them.                                        *)

Entry(key, def) == [key |-> key, def |-> def]

Keys(entries) == { entries[i].key : i \in DOMAIN entries }

\* entries[key]
Lookup(entries, key) ==
    IF key \in Keys(entries)
    THEN (CHOOSE e \in Range(entries) : e.key = key).def
    ELSE Undefined

\* { ...a, ...b }: a key of a keeps its place and takes b's value, the keys
\* that only b has follow in b's order
SpreadEntries(a, b) ==
    [i \in DOMAIN a |-> IF a[i].key \in Keys(b)
                        THEN Entry(a[i].key, Lookup(b, a[i].key))
                        ELSE a[i]]
    \o SelectSeq(b, LAMBDA e : e.key \notin Keys(a))

\* src/src/parser/option.ts: OptionDefinition; name and value are the fields
\* that Option adds
OptionDefinition(parse, default, short) ==
    [parse |-> parse, default |-> default, alias |-> <<>>, short |-> short,
     required |-> FALSE, hidden |-> FALSE, hiddenName |-> FALSE,
     noNegation |-> FALSE, name |-> <<>>, value |-> Undefined]

\* src/src/parser/flag.ts: ArgumentDefinition
ArgumentDefinition(parse, name, default) ==
    [parse |-> parse, name |-> name, default |-> default, required |-> FALSE]

\* src/unnamed/part_004: SharedCommandDefinition; id is the identity of the
\* object, which === compares
SharedCommandDefinition(id, handler, short, asFlag, commands) ==
    [id |-> <<"Definition", id>>, type |-> "SHARED", handler |-> handler, name |-> <<>>,
     alias |-> <<>>, short |-> short, asFlag |-> asFlag,
     commands |-> commands, options |-> <<>>, arguments |-> <<>>]

\* src/unnamed/part_004: IsolatedCommandDefinition
IsolatedCommandDefinition(id, handler, name, options, arguments, commands) ==
    [id |-> <<"Definition", id>>, type |-> "ISOLATED", handler |-> handler, name |-> name,
     alias |-> <<>>, short |-> <<>>, asFlag |-> FALSE,
     commands |-> commands, options |-> options, arguments |-> arguments]

\* src/unnamed/part_005: HELP_COMMAND
HELP_COMMAND ==
    SharedCommandDefinition("HELP_COMMAND", "HELP",
                            <<charAt0(HELP_COMMAND_NAME)>>, TRUE, <<>>)

\* src/src/parser/commands/version/version.ts: VERSION_COMMAND
VERSION_COMMAND ==
    SharedCommandDefinition("VERSION_COMMAND", "VERSION",
                            <<charAt0(VERSION_COMMAND_NAME)>>, TRUE, <<>>)

BUILTIN_COMMANDS ==
    <<Entry(HELP_COMMAND_NAME, HELP_COMMAND),
      Entry(VERSION_COMMAND_NAME, VERSION_COMMAND)>>

\* src/test/config.ts: CLI_OPTIONS
CLI_OPTIONS ==
    <<Entry(foo, OptionDefinition(STRING_TYPE, Str(foobar), <<<<"f">>>>)),
      Entry(foos, OptionDefinition(ARRAY(STRING_TYPE), Arr(<<>>), <<>>)),
      Entry(port, OptionDefinition(NUMBER_TYPE, Num(3000), <<<<"p">>>>)),
      Entry(ports, OptionDefinition(ARRAY(NUMBER_TYPE), Arr(<<>>), <<>>)),
      Entry(verbose, OptionDefinition(BOOLEAN_TYPE, Bool(FALSE), <<>>))>>

\* src/test/commands/echo/config.ts: ECHO_OPTIONS
ECHO_OPTIONS ==
    SpreadEntries(CLI_OPTIONS,
        <<Entry(silent, OptionDefinition(BOOLEAN_TYPE, Bool(FALSE), <<<<"s">>>>)),
          Entry(loud, OptionDefinition(BOOLEAN_TYPE, Bool(FALSE), <<<<"l">>>>))>>)

\* src/test/commands/echo/config.ts: ECHO_ARGUMENTS
ECHO_ARGUMENTS ==
    <<ArgumentDefinition(ARRAY(STRING_TYPE), <<"w", "o", "r", "d", "s">>, Undefined),
      ArgumentDefinition(NUMBER_TYPE, <<"w", "h", "i", "c", "h">>, Num(0))>>

\* the entry help: null of a commands object, when help is disabled
HelpEntry(help) == IF help THEN <<>> ELSE <<Entry(HELP_COMMAND_NAME, Null)>>

\* two Shared commands declared as nested commands of sub; TWO_COMMAND is
\* also declared among the commands of the root command
ONE_COMMAND == SharedCommandDefinition("ONE_COMMAND", "ONE", <<>>, FALSE, <<>>)

TWO_COMMAND == SharedCommandDefinition("TWO_COMMAND", "TWO", <<>>, FALSE, <<>>)

SUB_COMMAND ==
    SharedCommandDefinition("SUB_COMMAND", "SUB", <<>>, FALSE,
        <<Entry(one, ONE_COMMAND), Entry(two, TWO_COMMAND)>>)

\* src/test/index.ts: the definition of the root command cli, with the
\* nested commands of sub added
CLI_DEFINITION(help) ==
    IsolatedCommandDefinition("CLI_DEFINITION", "CLI", cli, CLI_OPTIONS, <<>>,
        <<Entry(sub, SUB_COMMAND), Entry(two, TWO_COMMAND)>> \o HelpEntry(help))

\* src/test/commands/echo/index.ts: ECHO_COMMAND (with help: null as in
\* src/unnamed/part_002 when help is disabled)
ECHO_COMMAND(help) ==
    IsolatedCommandDefinition("ECHO_COMMAND", "ECHO", echo, ECHO_OPTIONS,
        ECHO_ARGUMENTS, HelpEntry(help) \o <<Entry(VERSION_COMMAND_NAME, Null)>>)

\* a command nested in echo, to have parsers three levels deep
DEEP_COMMAND(help) ==
    IsolatedCommandDefinition("DEEP_COMMAND", "DEEP", deep,
        <<Entry(loud, OptionDefinition(BOOLEAN_TYPE, Bool(FALSE), <<<<"l">>>>))>>,
        <<>>, HelpEntry(help) \o <<Entry(VERSION_COMMAND_NAME, Null)>>)

\* a help command of the caller, declared under the key help in place of the
\* builtin one
CUSTOM_HELP_COMMAND ==
    SharedCommandDefinition("CUSTOM_HELP_COMMAND", "CUSTOM_HELP", <<>>, TRUE, <<>>)

\* options to construct parsers from: some share a short name, a long name
\* with an alias or with a negated form, or a token with a builtin command;
\* one is hidden
RegisterOptionPool ==
    <<Entry(foo, OptionDefinition(STRING_TYPE, Str(foobar), <<<<"f">>>>)),
      Entry(<<"f", "o", "r", "c", "e">>,
            OptionDefinition(BOOLEAN_TYPE, Bool(FALSE), <<<<"f">>>>)),
      Entry(<<"n", "o", "-", "f", "o", "o">>,
            OptionDefinition(BOOLEAN_TYPE, Bool(FALSE), <<>>)),
      Entry(<<"b", "a", "r">>,
            [OptionDefinition(STRING_TYPE, Undefined, <<>>) EXCEPT !.alias = <<foo>>]),
      Entry(HELP_COMMAND_NAME, OptionDefinition(BOOLEAN_TYPE, Bool(FALSE), <<>>)),
      Entry(<<"q", "u", "i", "e", "t">>,
            OptionDefinition(BOOLEAN_TYPE, Bool(FALSE), <<<<"h">>>>)),
      Entry(<<"f", "a", "s", "t">>,
            [OptionDefinition(BOOLEAN_TYPE, Bool(FALSE), <<<<"f">>>>)
                EXCEPT !.hidden = TRUE]),
      Entry(port, OptionDefinition(NUMBER_TYPE, Num(3000), <<<<"p">>>>))>>

\* the options objects of at most two options of the pool
RegisterOptionLists ==
    {<<>>}
    \cup { <<RegisterOptionPool[i]>> : i \in DOMAIN RegisterOptionPool }
    \cup { <<RegisterOptionPool[ij[1]], RegisterOptionPool[ij[2]]>> :
             ij \in { xy \in (DOMAIN RegisterOptionPool) \X (DOMAIN RegisterOptionPool) :
                        xy[1] # xy[2] } }

\* commands objects: none, builtin commands disabled, a help command of the
\* caller, and commands that share a token with a command, with the command
\* of a nested parser, with an option or with a builtin command
RegisterCommandLists ==
    {<<>>,
     HelpEntry(FALSE),
     HelpEntry(FALSE) \o <<Entry(VERSION_COMMAND_NAME, Null)>>,
     <<Entry(HELP_COMMAND_NAME, CUSTOM_HELP_COMMAND)>>,
     <<Entry(sub, SUB_COMMAND),
       Entry(<<"r", "u", "n">>,
             [SharedCommandDefinition("RUN_COMMAND", "RUN", <<>>, FALSE, <<>>)
                 EXCEPT !.alias = <<sub>>])>>,
     <<Entry(echo, SharedCommandDefinition("ECHO_SHARED", "ECHO_SHARED",
                                           <<>>, FALSE, <<>>))>>,
     <<Entry(foo, SharedCommandDefinition("FOO_COMMAND", "FOO", <<>>, TRUE, <<>>))>>,
     <<Entry(<<"v", "e", "r", "i", "f", "y">>,
             SharedCommandDefinition("VERIFY_COMMAND", "VERIFY",
                                     <<<<"v">>>>, TRUE, <<>>))>>}

\* the definitions that the root parser is constructed from: any options
\* with the builtin commands, and a few options with each commands object
RegisterSchemas ==
    { IsolatedCommandDefinition("CLI_DEFINITION", "CLI", cli, options, <<>>, <<>>) :
        options \in RegisterOptionLists }
    \cup
    { IsolatedCommandDefinition("CLI_DEFINITION", "CLI", cli, options, <<>>, commands) :
        options \in {<<>>, <<RegisterOptionPool[1]>>, <<RegisterOptionPool[5]>>,
                     <<RegisterOptionPool[6]>>},
        commands \in RegisterCommandLists }

\* src/src/parser/option.ts: an option with an alias and a short name, with
\* or without hiddenName and noNegation
FLAGGED_OPTION(hiddenName, noNegation) ==
    [OptionDefinition(STRING_TYPE, Str(foobar), <<<<"f">>>>)
        EXCEPT !.alias = <<<<"b", "a", "r">>>>,
               !.hiddenName = hiddenName,
               !.noNegation = noNegation]

\* src/src/parser/option.ts: a hidden option with a short name
HIDDEN_OPTION ==
    [OptionDefinition(STRING_TYPE, Str(foobar), <<<<"f">>>>) EXCEPT !.hidden = TRUE]

\* src/src/parser/option.ts: an option with the alias foo
FOO_ALIAS_OPTION ==
    [OptionDefinition(STRING_TYPE, Undefined, <<>>) EXCEPT !.alias = <<foo>>]

\* src/src/parser/option.ts: an option with no alias and no short name
PLAIN_OPTION == OptionDefinition(STRING_TYPE, Str(foobar), <<>>)

\* a commands object that disables the builtin commands: help: null,
\* version: null
NO_BUILTIN_COMMANDS ==
    <<Entry(HELP_COMMAND_NAME, Null), Entry(VERSION_COMMAND_NAME, Null)>>

\* names of options: a word, a word that begins with no- and a word that
\* begins with a digit
PlainNames == {foo, <<"n", "o", "-", "f", "o", "o">>, <<"1", "x">>}

\* a definition of the root parser with the given options and commands
SchemaOf(options, commands) ==
    IsolatedCommandDefinition("CLI_DEFINITION", "CLI", cli, options, <<>>, commands)

\* the definitions of a root parser whose options use hiddenName, noNegation
\* and hidden, names that begin with no- or with a digit
OptionSchemas ==
    { SchemaOf(<<Entry(foo, FLAGGED_OPTION(h, n))>>, <<>>) : h \in BOOLEAN, n \in BOOLEAN }
    \cup {SchemaOf(<<Entry(foo, HIDDEN_OPTION)>>, <<>>),
          SchemaOf(<<Entry(foo, HIDDEN_OPTION), Entry(<<"b", "a", "r">>, FOO_ALIAS_OPTION)>>,
                   <<>>)}
    \cup { SchemaOf(<<Entry(name, PLAIN_OPTION)>>, NO_BUILTIN_COMMANDS) : name \in PlainNames }

---------------------------------------------------------------------------
(* src/src/parser/parser.ts: registration.                                 *)
(* A registration step yields the parser after it and the error it threw,  *)
(* undefined if it returned.  _commandLookup and _optionLookup map a token *)
(* to the name under which _commands and _options hold the object.         *)

Returned(self) == [self |-> self, error |-> Undefined]

Thrown(self, error) == [self |-> self, error |-> error]

\* a parser as the field initializers leave it, before the constructor body
NewParser(definition) ==
    [definition |-> definition,
     _commands |-> EmptyObject,
     _parsers |-> EmptyObject,
     _arguments |-> <<>>,
     _options |-> EmptyObject,
     _commandLookup |-> EmptyObject,
     _optionLookup |-> EmptyObject,
     state |-> "INITIAL",
     result |-> EmptyObject]

\* flags.map(flag => `${ prefix }${ flag }`)
Prefixed(prefix, flags) == [i \in DOMAIN flags |-> prefix \o flags[i]]

\* registerArguments: this._arguments[index] = { ...definition }
registerArguments(self, args) ==
    Returned([self EXCEPT !._arguments = [i \in DOMAIN args |-> args[i]]])

\* the forEach at the end of registerOption without the check for a
\* duplicate: a later option takes the flag over
RECURSIVE registerOptionFlags_NoDuplicateCheck(_, _, _)
registerOptionFlags_NoDuplicateCheck(self, flags, name) ==
    IF flags = <<>> THEN Returned(self)
    ELSE LET flag == Head(flags)
         IN IF flag \in DOMAIN self._commandLookup
            THEN Thrown(self, CONFLICTING_OPTION(flag, self._commandLookup[flag]))
            ELSE registerOptionFlags_NoDuplicateCheck(
                     [self EXCEPT !._optionLookup = Put(@, flag, name)],
                     Tail(flags), name)

\* the forEach at the end of registerOption
RECURSIVE registerOptionFlags(_, _, _)
registerOptionFlags(self, flags, name) ==
    IF flags = <<>> THEN Returned(self)
    ELSE LET flag == Head(flags)
         IN IF flag \in DOMAIN self._optionLookup
            THEN Thrown(self, DUPLICATE_OPTION(flag, self._optionLookup[flag]))
            ELSE IF flag \in DOMAIN self._commandLookup
            THEN Thrown(self, CONFLICTING_OPTION(flag, self._commandLookup[flag]))
            ELSE registerOptionFlags(
                     [self EXCEPT !._optionLookup = Put(@, flag, name)],
                     Tail(flags), name)

\* registerOption() registering the long flag of the name also when
\* hiddenName is set
registerOption_IgnoresHiddenName(self, name, definition) ==
    LET option == [definition EXCEPT !.name = name]
    IN IF name \in DOMAIN self._options
       THEN Thrown(self, DUPLICATE_OPTION(name, name))
       ELSE LET added == [self EXCEPT !._options = Put(@, name, option)]
                aliases == coerceArray(option.alias)
                named == Append(aliases, option.name)
                longFlags == Prefixed(LONG_FLAG_PREFIX, named)
                shortFlags == Prefixed(SHORT_FLAG_PREFIX, coerceArray(option.short))
                negated == [i \in DOMAIN longFlags |-> NegateFlag(longFlags[i])]
                allLong == IF ~option.noNegation THEN longFlags \o negated
                           ELSE longFlags
            IN IF option.hidden THEN Returned(added)
               ELSE registerOptionFlags(added, allLong \o shortFlags, name)

\* registerOption() registering the flags of a hidden option too
registerOption_IgnoresHidden(self, name, definition) ==
    LET option == [definition EXCEPT !.name = name]
    IN IF name \in DOMAIN self._options
       THEN Thrown(self, DUPLICATE_OPTION(name, name))
       ELSE LET added == [self EXCEPT !._options = Put(@, name, option)]
                aliases == coerceArray(option.alias)
                named == IF ~option.hiddenName THEN Append(aliases, option.name)
                         ELSE aliases
                longFlags == Prefixed(LONG_FLAG_PREFIX, named)
                shortFlags == Prefixed(SHORT_FLAG_PREFIX, coerceArray(option.short))
                negated == [i \in DOMAIN longFlags |-> NegateFlag(longFlags[i])]
                allLong == IF ~option.noNegation THEN longFlags \o negated
                           ELSE longFlags
            IN registerOptionFlags(added, allLong \o shortFlags, name)

registerOption(self, name, definition) ==
    LET option == [definition EXCEPT !.name = name]
    IN IF name \in DOMAIN self._options
       THEN Thrown(self, DUPLICATE_OPTION(name, name))
       ELSE LET added == [self EXCEPT !._options = Put(@, name, option)]
                aliases == coerceArray(option.alias)
                named == IF ~option.hiddenName THEN Append(aliases, option.name)
                         ELSE aliases
                longFlags == Prefixed(LONG_FLAG_PREFIX, named)
                shortFlags == Prefixed(SHORT_FLAG_PREFIX, coerceArray(option.short))
                negated == [i \in DOMAIN longFlags |-> NegateFlag(longFlags[i])]
                allLong == IF ~option.noNegation THEN longFlags \o negated
                           ELSE longFlags
            IN IF option.hidden THEN Returned(added)
               ELSE registerOptionFlags(added, allLong \o shortFlags, name)

RECURSIVE registerOptions(_, _)
registerOptions(self, options) ==
    IF options = <<>> THEN Returned(self)
    ELSE LET first == registerOption(self, Head(options).key, Head(options).def)
         IN IF first.error # Undefined THEN first
            ELSE registerOptions(first.self, Tail(options))

\* the forEach at the end of registerCommand without the check for an
\* option that holds the flag
RECURSIVE registerCommandFlags_NoConflictCheck(_, _, _)
registerCommandFlags_NoConflictCheck(self, flags, name) ==
    IF flags = <<>> THEN Returned(self)
    ELSE LET flag == Head(flags)
         IN IF flag \in DOMAIN self._commandLookup
            THEN Thrown(self, DUPLICATE_COMMAND(flag, self._commandLookup[flag]))
            ELSE registerCommandFlags_NoConflictCheck(
                     [self EXCEPT !._commandLookup = Put(@, flag, name)],
                     Tail(flags), name)

\* the forEach at the end of registerCommand
RECURSIVE registerCommandFlags(_, _, _)
registerCommandFlags(self, flags, name) ==
    IF flags = <<>> THEN Returned(self)
    ELSE LET flag == Head(flags)
         IN IF flag \in DOMAIN self._commandLookup
            THEN Thrown(self, DUPLICATE_COMMAND(flag, self._commandLookup[flag]))
            ELSE IF flag \in DOMAIN self._optionLookup
            THEN Thrown(self, CONFLICTING_COMMAND(flag, self._optionLookup[flag]))
            ELSE registerCommandFlags(
                     [self EXCEPT !._commandLookup = Put(@, flag, name)],
                     Tail(flags), name)

\* the identity of the object { ...definition, name } that registerCommand
\* creates: a new object, which no definition is
CommandCopyId(definition, name) == <<"Command", definition.id[2]>>

registerCommand(self, name, definition) ==
    LET command == [definition EXCEPT !.name = name,
                                      !.id = CommandCopyId(definition, name)]
    IN IF name \in DOMAIN self._commands
       THEN Thrown(self, DUPLICATE_COMMAND(name, name))
       ELSE LET added == [self EXCEPT !._commands = Put(@, name, command)]
                named == Append(coerceArray(command.alias), name)
                shorts == coerceArray(command.short)
                longFlags == IF command.asFlag
                             THEN Prefixed(LONG_FLAG_PREFIX, named) ELSE named
                shortFlags == IF command.asFlag
                              THEN Prefixed(SHORT_FLAG_PREFIX, shorts) ELSE shorts
            IN registerCommandFlags(added, longFlags \o shortFlags, name)

\* registerCommands: a null entry is skipped
RECURSIVE registerCommands(_, _)
registerCommands(self, commands) ==
    IF commands = <<>> THEN Returned(self)
    ELSE LET entry == Head(commands)
             first == IF entry.def # Null
                      THEN registerCommand(self, entry.key, entry.def)
                      ELSE Returned(self)
         IN IF first.error # Undefined THEN first
            ELSE registerCommands(first.self, Tail(commands))

\* registerParser: parsers are held by reference, here by the name of the
\* parser variable
registerParser(self, name, parser) ==
    IF name \in DOMAIN self._parsers
    THEN Thrown(self, DUPLICATE_PARSER(name, name))
    ELSE Returned([self EXCEPT !._parsers = Put(@, name, parser)])

\* the constructor spreading the builtin commands over the commands of the
\* definition: { ...commands, ...BUILTIN_COMMANDS }
Constructor_BuiltinsLast(definition) ==
    LET args == registerArguments(NewParser(definition), definition.arguments)
        options == registerOptions(args.self, definition.options)
    IN IF options.error # Undefined THEN options
       ELSE registerCommands(options.self,
                             SpreadEntries(definition.commands, BUILTIN_COMMANDS))

\* new CliParser(definition)
Constructor(definition) ==
    LET args == registerArguments(NewParser(definition), definition.arguments)
        options == registerOptions(args.self, definition.options)
    IN IF options.error # Undefined THEN options
       ELSE registerCommands(options.self,
                             SpreadEntries(BUILTIN_COMMANDS, definition.commands))

\* nest registering the parser before the command
nest_ParserFirst(self, child, childDefinition) ==
    LET parser == registerParser(self, childDefinition.name, child)
    IN IF parser.error # Undefined THEN parser
       ELSE registerCommand(parser.self, childDefinition.name, childDefinition)

\* self.nest(parser), parser being the CliParser instance held under the
\* name child with the definition childDefinition
nest(self, child, childDefinition) ==
    LET command == registerCommand(self, childDefinition.name, childDefinition)
    IN IF command.error # Undefined THEN command
       ELSE registerParser(command.self, childDefinition.name, child)

---------------------------------------------------------------------------
(* src/src/parser/parser.ts: the scan, parse().                            *)
(* A frame is one call of run(): the parser it runs on, its arguments      *)
(* array, where it stands (pc) and the locals of parse(): the index i (the *)
(* code's i + 1), args, options and commandMatch.                          *)

Parsers == {"cli", "echo", "deep"}

Frame(parser, argv) ==
    [parser |-> parser, argv |-> argv, pc |-> "scan", i |-> 1, args |-> <<>>,
     options |-> EmptyObject, commandMatch |-> Undefined, error |-> Undefined,
     handler |-> ""]

\* the check of the nested command finding every command a child
NotChildOf_Never(parentCommand, command) == FALSE

\* parentCommand.commands?.[command.name] !== command
NotChildOf(parentCommand, command) ==
    LET child == Lookup(parentCommand.commands, command.name)
    IN IF child \in {Undefined, Null} THEN TRUE ELSE child.id # command.id

\* createDefaultConfig
createDefaultConfig(self) ==
    [name \in DOMAIN self._options |-> self._options[name].default]

\* createParserResult with the two spreads of config in the other order
createParserResult_DefaultsLast(self, args, options, command) ==
    [command |-> command, arguments |-> args, options |-> options,
     config |-> Spread(options, [name \in DOMAIN self._options |->
                                    self._options[name].default])]

\* createParserResult
createParserResult(self, args, options, command) ==
    [command |-> command, arguments |-> args, options |-> options,
     config |-> Spread(createDefaultConfig(self), options)]

\* the throw of an error inside run(): control goes to the catch block
Throw(self, frame, error) ==
    [self |-> self, frame |-> [frame EXCEPT !.pc = "catch", !.error = error]]

\* ScanOption without the lookup failure: a flag that is no option is pushed
\* to the arguments
ScanOption_UnknownFlagIsArgument(self, frame) ==
    LET i == frame.i
        argv == frame.argv
        curr == argv[i]
        next == IF i + 1 <= Len(argv) THEN Str(argv[i + 1]) ELSE Undefined
        currFlag == isFlag(curr) /\ curr \in DOMAIN self._optionLookup
        nextFlag == isFlag(IF next = Undefined THEN <<>> ELSE next.v)
    IN IF ~currFlag
       THEN LET index == Len(frame.args) + 1
                parsed == IF index <= Len(self._arguments)
                          THEN ApplyParser(self._arguments[index].parse, Str(curr))
                          ELSE Str(curr)
            IN [self |-> self,
                frame |-> [frame EXCEPT !.args = Append(@, parsed), !.i = i + 1]]
       ELSE LET name == self._optionLookup[curr]
                option == self._options[name]
                value == IF isNegatedFlag(curr) THEN Undefined
                         ELSE IF ~nextFlag
                              THEN (IF next = Undefined THEN Str(<<>>) ELSE next)
                              ELSE Str(<<>>)
                parsed == ApplyParser(option.parse, value)
            IN [self |-> [self EXCEPT !._options[name].value = parsed],
                frame |-> [frame EXCEPT
                              !.options = Put(@, option.name, parsed),
                              !.i = i + 1 + (IF ~nextFlag THEN 1 ELSE 0)]]

\* the loop body keeping the first value written for an option instead of
\* the last
ScanOption_FirstWriteWins(self, frame) ==
    LET i == frame.i
        argv == frame.argv
        curr == argv[i]
        next == IF i + 1 <= Len(argv) THEN Str(argv[i + 1]) ELSE Undefined
        currFlag == isFlag(curr)
        nextFlag == isFlag(IF next = Undefined THEN <<>> ELSE next.v)
    IN IF ~currFlag
       THEN LET index == Len(frame.args) + 1
                parsed == IF index <= Len(self._arguments)
                          THEN ApplyParser(self._arguments[index].parse, Str(curr))
                          ELSE Str(curr)
            IN [self |-> self,
                frame |-> [frame EXCEPT !.args = Append(@, parsed), !.i = i + 1]]
       ELSE IF curr \notin DOMAIN self._optionLookup
       THEN Throw(self, frame, INVALID_OPTION(curr, self.definition.name))
       ELSE LET name == self._optionLookup[curr]
                option == self._options[name]
                value == IF isNegatedFlag(curr) THEN Undefined
                         ELSE IF ~nextFlag
                              THEN (IF next = Undefined THEN Str(<<>>) ELSE next)
                              ELSE Str(<<>>)
                parsed == ApplyParser(option.parse, value)
                first == option.name \notin DOMAIN frame.options
            IN [self |-> [self EXCEPT !._options[name].value =
                                          IF first THEN parsed ELSE @],
                frame |-> [frame EXCEPT
                              !.options = IF first THEN Put(@, option.name, parsed)
                                          ELSE @,
                              !.i = i + 1 + (IF ~nextFlag THEN 1 ELSE 0)]]

\* the part of the loop body that runs in state OPTION
ScanOption(self, frame) ==
    LET i == frame.i
        argv == frame.argv
        curr == argv[i]
        next == IF i + 1 <= Len(argv) THEN Str(argv[i + 1]) ELSE Undefined
        currFlag == isFlag(curr)
        nextFlag == isFlag(IF next = Undefined THEN <<>> ELSE next.v)
    IN IF ~currFlag
       THEN LET index == Len(frame.args) + 1
                parsed == IF index <= Len(self._arguments)
                          THEN ApplyParser(self._arguments[index].parse, Str(curr))
                          ELSE Str(curr)
            IN [self |-> self,
                frame |-> [frame EXCEPT !.args = Append(@, parsed), !.i = i + 1]]
       ELSE IF curr \notin DOMAIN self._optionLookup
       THEN Throw(self, frame, INVALID_OPTION(curr, self.definition.name))
       ELSE LET name == self._optionLookup[curr]
                option == self._options[name]
                value == IF isNegatedFlag(curr) THEN Undefined
                         ELSE IF ~nextFlag
                              THEN (IF next = Undefined THEN Str(<<>>) ELSE next)
                              ELSE Str(<<>>)
                parsed == ApplyParser(option.parse, value)
            IN [self |-> [self EXCEPT !._options[name].value = parsed],
                frame |-> [frame EXCEPT
                              !.options = Put(@, option.name, parsed),
                              !.i = i + 1 + (IF ~nextFlag THEN 1 ELSE 0)]]

\* the loop body throwing the invalid-command error for a token in command
\* position that is neither a command nor a flag
ScanToken_UnknownCommandThrows(self, frame) ==
    LET i == frame.i
        curr == frame.argv[i]
        toOption == [self EXCEPT !.state = "OPTION"]
    IN IF self.state \in {"COMMAND", "SHARED"}
       THEN IF curr \in DOMAIN self._commandLookup
            THEN LET command == self._commands[self._commandLookup[curr]]
                     matched == [frame EXCEPT
                                   !.commandMatch =
                                       [name |-> command.name,
                                        argv |-> SubSeq(frame.argv, i + 1, Len(frame.argv))],
                                   !.i = i + 1]
                 IN IF /\ self.state = "SHARED"
                       /\ NotChildOf(self._commands[frame.commandMatch.name], command)
                    THEN Throw(self, frame,
                               INVALID_COMMAND(command.name,
                                   Str(self._commands[frame.commandMatch.name].name)))
                    ELSE IF command.type = "SHARED"
                    THEN [self |-> [self EXCEPT !.state = "SHARED"], frame |-> matched]
                    ELSE [self |-> [self EXCEPT !.state = "DONE"], frame |-> matched]
            ELSE IF ~isFlag(curr)
            THEN Throw(self, frame, INVALID_COMMAND(curr, Undefined))
            ELSE ScanOption(toOption, frame)
       ELSE IF self.state = "OPTION"
       THEN ScanOption(self, frame)
       ELSE [self |-> self, frame |-> [frame EXCEPT !.i = i + 1]]

\* the loop body scanning the tokens after the token of a matched Isolated
\* command as options and arguments of this parser
ScanToken_ScansAfterIsolated(self, frame) ==
    LET i == frame.i
        curr == frame.argv[i]
        toOption == [self EXCEPT !.state = "OPTION"]
    IN IF self.state \in {"COMMAND", "SHARED"}
       THEN IF curr \in DOMAIN self._commandLookup
            THEN LET command == self._commands[self._commandLookup[curr]]
                     matched == [frame EXCEPT
                                   !.commandMatch =
                                       [name |-> command.name,
                                        argv |-> SubSeq(frame.argv, i + 1, Len(frame.argv))],
                                   !.i = i + 1]
                 IN IF /\ self.state = "SHARED"
                       /\ NotChildOf(self._commands[frame.commandMatch.name], command)
                    THEN Throw(self, frame,
                               INVALID_COMMAND(command.name,
                                   Str(self._commands[frame.commandMatch.name].name)))
                    ELSE IF command.type = "SHARED"
                    THEN [self |-> [self EXCEPT !.state = "SHARED"], frame |-> matched]
                    ELSE [self |-> [self EXCEPT !.state = "DONE"], frame |-> matched]
            ELSE ScanOption(toOption, frame)
       ELSE ScanOption(self, frame)

\* the loop body leaving the command token in the arguments array of the
\* command match
ScanToken_KeepsCommandToken(self, frame) ==
    LET i == frame.i
        curr == frame.argv[i]
        toOption == [self EXCEPT !.state = "OPTION"]
    IN IF self.state \in {"COMMAND", "SHARED"}
       THEN IF curr \in DOMAIN self._commandLookup
            THEN LET command == self._commands[self._commandLookup[curr]]
                     matched == [frame EXCEPT
                                   !.commandMatch =
                                       [name |-> command.name,
                                        argv |-> SubSeq(frame.argv, i, Len(frame.argv))],
                                   !.i = i + 1]
                 IN IF /\ self.state = "SHARED"
                       /\ NotChildOf(self._commands[frame.commandMatch.name], command)
                    THEN Throw(self, frame,
                               INVALID_COMMAND(command.name,
                                   Str(self._commands[frame.commandMatch.name].name)))
                    ELSE IF command.type = "SHARED"
                    THEN [self |-> [self EXCEPT !.state = "SHARED"], frame |-> matched]
                    ELSE [self |-> [self EXCEPT !.state = "DONE"], frame |-> matched]
            ELSE ScanOption(toOption, frame)
       ELSE IF self.state = "OPTION"
       THEN ScanOption(self, frame)
       ELSE [self |-> self, frame |-> [frame EXCEPT !.i = i + 1]]

\* one iteration of the for loop of parse()
ScanToken(self, frame) ==
    LET i == frame.i
        curr == frame.argv[i]
        toOption == [self EXCEPT !.state = "OPTION"]
    IN IF self.state \in {"COMMAND", "SHARED"}
       THEN IF curr \in DOMAIN self._commandLookup
            THEN LET command == self._commands[self._commandLookup[curr]]
                     matched == [frame EXCEPT
                                   !.commandMatch =
                                       [name |-> command.name,
                                        argv |-> SubSeq(frame.argv, i + 1, Len(frame.argv))],
                                   !.i = i + 1]
                 IN IF /\ self.state = "SHARED"
                       /\ NotChildOf(self._commands[frame.commandMatch.name], command)
                    THEN Throw(self, frame,
                               INVALID_COMMAND(command.name,
                                   Str(self._commands[frame.commandMatch.name].name)))
                    ELSE IF command.type = "SHARED"
                    THEN [self |-> [self EXCEPT !.state = "SHARED"], frame |-> matched]
                    ELSE [self |-> [self EXCEPT !.state = "DONE"], frame |-> matched]
            ELSE ScanOption(toOption, frame)
       ELSE IF self.state = "OPTION"
       THEN ScanOption(self, frame)
       ELSE [self |-> self, frame |-> [frame EXCEPT !.i = i + 1]]

\* the end of parse(), after the loop
ScanDone(self, frame) ==
    [self |-> [self EXCEPT
                  !.result = createParserResult(self, frame.args, frame.options,
                                                frame.commandMatch),
                  !.state = "DONE"],
     frame |-> [frame EXCEPT !.pc = "dispatch"]]

\* the names of the accessor methods
Apis == {<<"arguments">>, <<"options">>, <<"config">>}

\* the key of this.result that the accessor reads
ResultKey(api) == api[1]

\* arguments(), options() and config(): the error thrown or the value
\* returned
\* the accessors throwing only before the first run()
Accessor_ThrowsOnlyInitial(self, api) ==
    IF self.state = "INITIAL"
    THEN [error |-> INVALID_USAGE(self, api), value |-> Undefined]
    ELSE [error |-> Undefined,
          value |-> Get(self.result, ResultKey(api))]

Accessor(self, api) ==
    IF self.state # "DONE"
    THEN [error |-> INVALID_USAGE(self, api), value |-> Undefined]
    ELSE [error |-> Undefined,
          value |-> Get(self.result, ResultKey(api))]

---------------------------------------------------------------------------
(* The state.                                                              *)

VARIABLES
    parsers,    \* the CliParser instances, by the name of the variable holding them
    stack,      \* the calls of run() in progress, the innermost last
    log,        \* what the run did that can be observed, in order
    outcome,    \* how the promise of the outermost run() settled
    call,       \* the last accessor call and what it gave
    tokens,     \* the strings the arguments arrays are made of
    registered, \* the last observed constructor or nest() call and its outcome
    probe       \* the last call of a function of the library and its result

vars == <<parsers, stack, log, outcome, call, tokens, registered, probe>>

NoCall == [parser |-> "", api |-> <<>>, error |-> Undefined, value |-> Undefined]

NotRun == [status |-> "none", error |-> Undefined]

\* no call of the constructor or of nest() yet; failed holds the parsers on
\* which a call of nest() has thrown.  The calls are recorded only in the
\* specifications that observe the registration (observed).
NoRegistration ==
    [op |-> "none", parser |-> "", child |-> "", definition |-> Undefined,
     error |-> Undefined, failed |-> {}, observed |-> FALSE]

NoProbe == [fn |-> "", input |-> <<>>, output |-> Undefined]

Event(ev, parser, handler, error) ==
    [ev |-> ev, parser |-> parser, handler |-> handler, error |-> error]

\* the definitions the parsers are constructed from; help[p] tells whether
\* the definition of p leaves the builtin help command enabled
Definition(p, help) ==
    CASE p = "cli" -> CLI_DEFINITION(help[p])
      [] p = "echo" -> ECHO_COMMAND(help[p])
      [] p = "deep" -> DEEP_COMMAND(help[p])

\* the state after the three parsers were constructed
InitWith(universe, helps) ==
    /\ \E help \in helps :
         parsers = [p \in Parsers |-> Constructor(Definition(p, help)).self]
    /\ stack = <<>>
    /\ log = <<>>
    /\ outcome = NotRun
    /\ call = NoCall
    /\ tokens = universe
    /\ registered = NoRegistration
    /\ probe = NoProbe

\* the arguments arrays of at most n tokens
ArgvOfLength(n) == UNION { [1..m -> tokens] : m \in 0..n }

Top == stack[Len(stack)]

SetTop(frame) == [stack EXCEPT ![Len(stack)] = frame]

---------------------------------------------------------------------------
(* The operations.                                                         *)

\* parent.nest(child), before the run; which parsers may be nested in which
\* is NestPairs
NestPairs == {<<"cli", "echo">>, <<"echo", "deep">>}

NestCall(parent, child) ==
    /\ stack = <<>>
    /\ outcome = NotRun
    /\ LET done == nest(parsers[parent], child, parsers[child].definition)
       IN /\ parsers' = [parsers EXCEPT ![parent] = done.self]
          /\ registered' =
                IF registered.observed
                THEN [registered EXCEPT
                         !.op = "nest", !.parser = parent, !.child = child,
                         !.definition = parsers[child].definition,
                         !.error = done.error,
                         !.failed = IF done.error # Undefined
                                    THEN @ \cup {parent} ELSE @]
                ELSE registered
    /\ call' = NoCall
    /\ UNCHANGED <<stack, log, outcome, tokens, probe>>

\* the calls of nest() of a program that nests echo in cli and deep in echo
Nest(parent, child) ==
    /\ <<parent, child>> \in NestPairs
    /\ NestCall(parent, child)

\* the calls of nest() of a program that also nests cli in itself and deep in
\* cli as well as in echo
SharedNestPairs ==
    NestPairs \cup {<<"cli", "cli">>, <<"cli", "deep">>}

NestShared(parent, child) ==
    /\ <<parent, child>> \in SharedNestPairs
    /\ NestCall(parent, child)

\* cli = new CliParser(definition), before any call of nest() and before the
\* run; if the constructor throws there is no new parser
Construct(definition) ==
    /\ stack = <<>>
    /\ outcome = NotRun
    /\ registered.observed
    /\ registered.op = "none"
    /\ LET made == Constructor(definition)
       IN /\ parsers' = IF made.error = Undefined
                        THEN [parsers EXCEPT !["cli"] = made.self]
                        ELSE parsers
          /\ registered' = [registered EXCEPT
                               !.op = "new", !.parser = "cli",
                               !.definition = definition, !.error = made.error]
    /\ call' = NoCall
    /\ UNCHANGED <<stack, log, outcome, tokens, probe>>

\* the strings that the functions of the flag grammar are called with
FlagAlphabet == {"-", "n", "o", "1", "4", "2"}

FlagStrings == UNION { [1..n -> FlagAlphabet] : n \in 0..MaxFlagLen }

\* a call of isFlag, isLongFlag, isShortFlag and isNegatedFlag with one
\* string; the functions keep no state, so one call per behaviour shows all
Classify(value) ==
    /\ stack = <<>>
    /\ probe = NoProbe
    /\ probe' = [fn |-> "flag", input |-> value,
                 output |-> [isFlag |-> isFlag(value),
                             isLongFlag |-> isLongFlag(value),
                             isShortFlag |-> isShortFlag(value),
                             isNegatedFlag |-> isNegatedFlag(value)]]
    /\ UNCHANGED <<parsers, stack, log, outcome, call, tokens, registered>>

\* the values that the type parsers are called with: undefined and the
\* strings of at most MaxValueLen characters, of pieces and commas for
\* ARRAY(STRING), of the letters of "false" and a digit for BOOLEAN
ValueStrings(alphabet) ==
    {Undefined}
    \cup { Str(s) : s \in UNION { [1..n -> alphabet] : n \in 0..MaxValueLen } }

TypeParserCalls ==
    { <<ARRAY(STRING_TYPE), value>> : value \in ValueStrings({"a", "b", "c", ","}) }
    \cup { <<BOOLEAN_TYPE, value>> :
              value \in ValueStrings({"f", "a", "l", "s", "e", "0"}) }

\* a call parser(value) of a type parser; the type parsers keep no state, so
\* one call per behaviour shows all
Convert(parser, value) ==
    /\ stack = <<>>
    /\ probe = NoProbe
    /\ probe' = [fn |-> "parse", input |-> [parser |-> parser, value |-> value],
                 output |-> ApplyParser(parser, value)]
    /\ UNCHANGED <<parsers, stack, log, outcome, call, tokens, registered>>

\* run() starting a scan without parse() setting the state COMMAND
Enter_KeepsState(parser, argv) ==
    /\ parsers' = parsers
    /\ stack' = Append(stack, Frame(parser, argv))

\* the entry of run(argv) into parse(argv): this.state = COMMAND
Enter(parser, argv) ==
    /\ parsers' = [parsers EXCEPT ![parser].state = "COMMAND"]
    /\ stack' = Append(stack, Frame(parser, argv))

\* cli.run(argv)
Run(argv) ==
    /\ stack = <<>>
    /\ outcome = NotRun
    /\ Enter("cli", argv)
    /\ outcome' = [status |-> "pending", error |-> Undefined]
    /\ call' = NoCall
    /\ UNCHANGED <<log, tokens, registered, probe>>

\* one iteration of the loop of parse()
Scan ==
    /\ stack # <<>>
    /\ Top.pc = "scan"
    /\ Top.i <= Len(Top.argv)
    /\ LET step == ScanToken(parsers[Top.parser], Top)
       IN /\ parsers' = [parsers EXCEPT ![Top.parser] = step.self]
          /\ stack' = SetTop(step.frame)
    /\ call' = NoCall
    /\ UNCHANGED <<log, outcome, tokens, registered, probe>>

\* the end of parse()
ScanEnd ==
    /\ stack # <<>>
    /\ Top.pc = "scan"
    /\ Top.i > Len(Top.argv)
    /\ LET step == ScanDone(parsers[Top.parser], Top)
       IN /\ parsers' = [parsers EXCEPT ![Top.parser] = step.self]
          /\ stack' = SetTop(step.frame)
    /\ call' = NoCall
    /\ UNCHANGED <<log, outcome, tokens, registered, probe>>

\* cli.run(argv) once more, after the promise of the first call has settled;
\* probe keeps the arguments array of the second call
Rerun(argv) ==
    /\ stack = <<>>
    /\ outcome.status \in {"resolved", "rejected"}
    /\ probe = NoProbe
    /\ Enter("cli", argv)
    /\ outcome' = [status |-> "pending", error |-> Undefined]
    /\ probe' = [fn |-> "run", input |-> argv, output |-> Undefined]
    /\ call' = NoCall
    /\ UNCHANGED <<log, tokens, registered>>

\* run() after parse() calling this parser's own handler whatever matched
Dispatch_OwnHandler ==
    /\ stack # <<>>
    /\ Top.pc = "dispatch"
    /\ stack' = SetTop([Top EXCEPT !.pc = "handler",
                                   !.handler = parsers[Top.parser].definition.handler])
    /\ log' = Append(log, Event("handler", Top.parser,
                                parsers[Top.parser].definition.handler, Undefined))
    /\ call' = NoCall
    /\ UNCHANGED <<parsers, outcome, tokens, registered, probe>>

\* Dispatch without the await of the run() of the matched Isolated command:
\* the promise of the parent's run() resolves while the child's run() goes on
Dispatch_NoAwait ==
    /\ stack # <<>>
    /\ Top.pc = "dispatch"
    /\ LET self == parsers[Top.parser]
           matchedCommand == self.result.command
       IN IF matchedCommand # Undefined
          THEN LET command == self._commands[matchedCommand.name]
               IN IF command.type = "SHARED"
                  THEN /\ stack' = SetTop([Top EXCEPT !.pc = "handler",
                                                      !.handler = command.handler])
                       /\ log' = Append(log, Event("handler", Top.parser,
                                                   command.handler, Undefined))
                       /\ UNCHANGED parsers
                  ELSE IF matchedCommand.name \in DOMAIN self._parsers
                  THEN /\ parsers' = [parsers EXCEPT
                                        ![self._parsers[matchedCommand.name]].state = "COMMAND"]
                       /\ stack' = Append(SetTop([Top EXCEPT !.pc = "resolved"]),
                                          Frame(self._parsers[matchedCommand.name],
                                                matchedCommand.argv))
                       /\ UNCHANGED log
                  ELSE \* parser is undefined: parser.run throws a TypeError
                       /\ stack' = SetTop([Top EXCEPT !.pc = "catch",
                                                      !.error = TypeError])
                       /\ UNCHANGED <<parsers, log>>
          ELSE /\ stack' = SetTop([Top EXCEPT !.pc = "handler",
                                              !.handler = self.definition.handler])
               /\ log' = Append(log, Event("handler", Top.parser,
                                           self.definition.handler, Undefined))
               /\ UNCHANGED parsers
    /\ call' = NoCall
    /\ UNCHANGED <<outcome, tokens, registered, probe>>

\* run() after parse(): the handler of the matched Shared command, the run()
\* of the parser of the matched Isolated command, or this parser's handler
Dispatch ==
    /\ stack # <<>>
    /\ Top.pc = "dispatch"
    /\ LET self == parsers[Top.parser]
           matchedCommand == self.result.command
       IN IF matchedCommand # Undefined
          THEN LET command == self._commands[matchedCommand.name]
               IN IF command.type = "SHARED"
                  THEN /\ stack' = SetTop([Top EXCEPT !.pc = "handler",
                                                      !.handler = command.handler])
                       /\ log' = Append(log, Event("handler", Top.parser,
                                                   command.handler, Undefined))
                       /\ UNCHANGED parsers
                  ELSE IF matchedCommand.name \in DOMAIN self._parsers
                  THEN /\ parsers' = [parsers EXCEPT
                                        ![self._parsers[matchedCommand.name]].state = "COMMAND"]
                       /\ stack' = Append(SetTop([Top EXCEPT !.pc = "await"]),
                                          Frame(self._parsers[matchedCommand.name],
                                                matchedCommand.argv))
                       /\ UNCHANGED log
                  ELSE \* parser is undefined: parser.run throws a TypeError
                       /\ stack' = SetTop([Top EXCEPT !.pc = "catch",
                                                      !.error = TypeError])
                       /\ UNCHANGED <<parsers, log>>
          ELSE /\ stack' = SetTop([Top EXCEPT !.pc = "handler",
                                              !.handler = self.definition.handler])
               /\ log' = Append(log, Event("handler", Top.parser,
                                           self.definition.handler, Undefined))
               /\ UNCHANGED parsers
    /\ call' = NoCall
    /\ UNCHANGED <<outcome, tokens, registered, probe>>

\* the handlers of the builtin commands; they log to the console and return
BuiltinHandlers == {"HELP", "VERSION"}

\* a call of arguments(), options() or config() on parser p, by the code
\* around the run or by a command handler of the schema while it executes
Access(p, api) ==
    /\ \/ stack = <<>>
       \/ /\ stack # <<>>
          /\ Top.pc = "handler"
          /\ Top.handler \notin BuiltinHandlers
    /\ LET got == Accessor(parsers[p], api)
       IN call' = [parser |-> p, api |-> api, error |-> got.error,
                   value |-> got.value]
    /\ UNCHANGED <<parsers, stack, log, outcome, tokens, registered, probe>>

\* the handler that run() awaits returns
HandlerReturn ==
    /\ stack # <<>>
    /\ Top.pc = "handler"
    /\ stack' = SetTop([Top EXCEPT !.pc = "resolved"])
    /\ log' = IF Top.handler \in BuiltinHandlers
              THEN Append(log, Event("console.log", Top.parser, Top.handler, Undefined))
              ELSE log
    /\ call' = NoCall
    /\ UNCHANGED <<parsers, outcome, tokens, registered, probe>>

\* what a command handler of the schema may throw: an error of its own, a
\* ParserError, or the error that its last accessor call threw
HandlerErrors == {HandlerError, HandlerParserError}
                 \cup (IF call.error # Undefined THEN {call.error} ELSE {})

\* the handler that run() awaits throws
HandlerThrow(error) ==
    /\ stack # <<>>
    /\ Top.pc = "handler"
    /\ Top.handler \notin BuiltinHandlers
    /\ error \in HandlerErrors
    /\ stack' = SetTop([Top EXCEPT !.pc = "catch", !.error = error])
    /\ call' = NoCall
    /\ UNCHANGED <<parsers, log, outcome, tokens, registered, probe>>

\* this._commands[HELP_COMMAND_NAME]
HelpOf(self) == Get(self._commands, HELP_COMMAND_NAME)

\* Catch calling the help handler before it sets this.state
Catch_HelpBeforeDone ==
    /\ stack # <<>>
    /\ Top.pc = "catch"
    /\ LET self == parsers[Top.parser]
           error == Top.error
           help == HelpOf(self)
       IN IF IsParserError(error) /\ help # Undefined
          THEN /\ log' = log \o <<Event("console.error", Top.parser, "", error),
                                  Event("handler", Top.parser, help.handler, Undefined)>>
               /\ stack' = SetTop([Top EXCEPT !.pc = "help", !.handler = help.handler])
               /\ UNCHANGED parsers
          ELSE /\ stack' = SetTop([Top EXCEPT !.pc = "rejected"])
               /\ UNCHANGED <<parsers, log>>
    /\ call' = NoCall
    /\ UNCHANGED <<outcome, tokens, registered, probe>>

\* the catch block of run() writing every error it catches to console.error
Catch_LogsEveryError ==
    /\ stack # <<>>
    /\ Top.pc = "catch"
    /\ LET self == parsers[Top.parser]
           error == Top.error
           help == HelpOf(self)
       IN IF IsParserError(error) /\ help # Undefined
          THEN /\ parsers' = [parsers EXCEPT ![Top.parser].state = "DONE"]
               /\ log' = log \o <<Event("state = DONE", Top.parser, "", Undefined),
                                  Event("console.error", Top.parser, "", error),
                                  Event("handler", Top.parser, help.handler, Undefined)>>
               /\ stack' = SetTop([Top EXCEPT !.pc = "help", !.handler = help.handler])
          ELSE /\ stack' = SetTop([Top EXCEPT !.pc = "rejected"])
               /\ log' = Append(log, Event("console.error", Top.parser, "", error))
               /\ UNCHANGED parsers
    /\ call' = NoCall
    /\ UNCHANGED <<outcome, tokens, registered, probe>>

\* the catch block of run() up to the call of the help handler
Catch ==
    /\ stack # <<>>
    /\ Top.pc = "catch"
    /\ LET self == parsers[Top.parser]
           error == Top.error
           help == HelpOf(self)
       IN IF IsParserError(error) /\ help # Undefined
          THEN /\ parsers' = [parsers EXCEPT ![Top.parser].state = "DONE"]
               /\ log' = log \o <<Event("state = DONE", Top.parser, "", Undefined),
                                  Event("console.error", Top.parser, "", error),
                                  Event("handler", Top.parser, help.handler, Undefined)>>
               /\ stack' = SetTop([Top EXCEPT !.pc = "help", !.handler = help.handler])
          ELSE /\ stack' = SetTop([Top EXCEPT !.pc = "rejected"])
               /\ UNCHANGED <<parsers, log>>
    /\ call' = NoCall
    /\ UNCHANGED <<outcome, tokens, registered, probe>>

\* HelpReturn throwing the caught error again instead of a SilentError
HelpReturn_Rethrow ==
    /\ stack # <<>>
    /\ Top.pc = "help"
    /\ stack' = SetTop([Top EXCEPT !.pc = "rejected"])
    /\ log' = Append(log, Event("console.log", Top.parser, Top.handler, Undefined))
    /\ call' = NoCall
    /\ UNCHANGED <<parsers, outcome, tokens, registered, probe>>

\* the help handler called by the catch block returns: throw new SilentError()
HelpReturn ==
    /\ stack # <<>>
    /\ Top.pc = "help"
    /\ stack' = SetTop([Top EXCEPT !.pc = "rejected",
                                   !.error = SilentError(Top.parser)])
    /\ log' = Append(log, Event("console.log", Top.parser, Top.handler, Undefined))
    /\ call' = NoCall
    /\ UNCHANGED <<parsers, outcome, tokens, registered, probe>>

\* the promise of the innermost run() settles: the run() awaiting it goes on,
\* into its catch block if the promise was rejected
Settle ==
    /\ stack # <<>>
    /\ Top.pc \in {"resolved", "rejected"}
    /\ LET rest == SubSeq(stack, 1, Len(stack) - 1)
       IN IF rest = <<>>
          THEN /\ stack' = rest
               /\ outcome' = [status |-> Top.pc, error |-> Top.error]
          ELSE /\ stack' = [rest EXCEPT ![Len(rest)] =
                              IF Top.pc = "resolved"
                              THEN [@ EXCEPT !.pc = "resolved"]
                              ELSE [@ EXCEPT !.pc = "catch", !.error = Top.error]]
               /\ UNCHANGED outcome
    /\ call' = NoCall
    /\ UNCHANGED <<parsers, log, tokens, registered, probe>>

\* run(argv) called on the parser of a handler that is suspended, before
\* that handler goes on; probe keeps the arguments array of this call
Reenter(argv) ==
    /\ stack # <<>>
    /\ Top.pc = "handler"
    /\ Top.handler \notin BuiltinHandlers
    /\ probe = NoProbe
    /\ Enter(Top.parser, argv)
    /\ probe' = [fn |-> "reenter", input |-> argv, output |-> Undefined]
    /\ call' = NoCall
    /\ UNCHANGED <<log, outcome, tokens, registered>>

\* the promise of a run() called during a suspension settles and the
\* suspended handler goes on, whether the promise was resolved or rejected
Resume ==
    /\ Len(stack) >= 2
    /\ Top.pc \in {"resolved", "rejected"}
    /\ stack[Len(stack) - 1].pc = "handler"
    /\ stack' = SubSeq(stack, 1, Len(stack) - 1)
    /\ call' = NoCall
    /\ UNCHANGED <<parsers, log, outcome, tokens, registered, probe>>

\* Settle for a run() that its caller awaits
SettleAwaited ==
    /\ IF Len(stack) < 2 THEN TRUE ELSE stack[Len(stack) - 1].pc # "handler"
    /\ Settle

Next ==
    \/ \E parent, child \in Parsers : Nest(parent, child)
    \/ \E argv \in ArgvOfLength(MaxArgv) : Run(argv)
    \/ Scan
    \/ ScanEnd
    \/ Dispatch
    \/ \E p \in Parsers, api \in Apis : Access(p, api)
    \/ HandlerReturn
    \/ \E error \in HandlerErrors : HandlerThrow(error)
    \/ Catch
    \/ HelpReturn
    \/ Settle

\* the operations of a program that constructs the root parser itself
NextRegister ==
    \/ \E definition \in RegisterSchemas : Construct(definition)
    \/ \E parent, child \in Parsers : Nest(parent, child)
    \/ \E argv \in ArgvOfLength(MaxArgv) : Run(argv)
    \/ Scan
    \/ ScanEnd
    \/ Dispatch
    \/ \E p \in Parsers, api \in Apis : Access(p, api)
    \/ HandlerReturn
    \/ \E error \in HandlerErrors : HandlerThrow(error)
    \/ Catch
    \/ HelpReturn
    \/ Settle

\* the operations of a program that nests a parser more than once and whose
\* handlers call no accessor
NextNest ==
    \/ \E parent, child \in Parsers : NestShared(parent, child)
    \/ \E argv \in ArgvOfLength(MaxArgv) : Run(argv)
    \/ Scan
    \/ ScanEnd
    \/ Dispatch
    \/ HandlerReturn
    \/ \E error \in HandlerErrors : HandlerThrow(error)
    \/ Catch
    \/ HelpReturn
    \/ Settle

\* the operations of a program that constructs the root parser from one of
\* OptionSchemas and whose handlers call no accessor
NextSchema ==
    \/ \E definition \in OptionSchemas : Construct(definition)
    \/ \E argv \in ArgvOfLength(MaxArgv) : Run(argv)
    \/ Scan
    \/ ScanEnd
    \/ Dispatch
    \/ HandlerReturn
    \/ \E error \in HandlerErrors : HandlerThrow(error)
    \/ Catch
    \/ HelpReturn
    \/ Settle

\* the operations of a program that calls run() of the root parser twice, the
\* second time after the first call has settled, and whose handlers call no
\* accessor
NextRerun ==
    \/ \E argv \in ArgvOfLength(MaxArgv) : Run(argv)
    \/ \E argv \in (IF stack = <<>> /\ probe = NoProbe
                     THEN ArgvOfLength(MaxArgv) ELSE {}) : Rerun(argv)
    \/ Scan
    \/ ScanEnd
    \/ Dispatch
    \/ HandlerReturn
    \/ \E error \in HandlerErrors : HandlerThrow(error)
    \/ Catch
    \/ HelpReturn
    \/ Settle

\* the operations of a program in which run() is called once more on the
\* parser of a handler that is suspended
NextReenter ==
    \/ \E argv \in ArgvOfLength(MaxArgv) : Run(argv)
    \/ \E argv \in (IF probe = NoProbe THEN ArgvOfLength(MaxArgv) ELSE {}) :
          Reenter(argv)
    \/ Resume
    \/ Scan
    \/ ScanEnd
    \/ Dispatch
    \/ HandlerReturn
    \/ \E error \in HandlerErrors : HandlerThrow(error)
    \/ Catch
    \/ HelpReturn
    \/ SettleAwaited

\* the operations of a program that only classifies strings; no string is
\* tried once the call was made
NextFlags ==
    \E value \in (IF probe = NoProbe THEN FlagStrings ELSE {}) : Classify(value)

\* the operations of a program that only calls type parsers; no value is
\* tried once the call was made
NextConvert ==
    \E c \in (IF probe = NoProbe THEN TypeParserCalls ELSE {}) : Convert(c[1], c[2])

---------------------------------------------------------------------------
(* The specifications.                                                     *)

\* help enabled or disabled in each definition
AllHelps == [Parsers -> BOOLEAN]

\* help enabled in every definition, or in none
SameHelps == {[p \in Parsers |-> TRUE], [p \in Parsers |-> FALSE]}

\* runs over commands, an option of cli and echo, an option of echo only
\* and a value
SpecTokens ==
    {sub, echo, LONG_FLAG_PREFIX \o foo, LONG_FLAG_PREFIX \o loud, <<"x">>}

Init == InitWith(SpecTokens, SameHelps)

Spec == Init /\ [][Next]_vars

\* runs over the flags of options of each type, a value and the empty string
OptionTokens ==
    {LONG_FLAG_PREFIX \o foo, NEGATED_FLAG_PREFIX \o foo,
     NEGATED_FLAG_PREFIX \o port, NEGATED_FLAG_PREFIX \o foos,
     LONG_FLAG_PREFIX \o verbose, <<"x">>}

InitOptions == InitWith(OptionTokens, {[p \in Parsers |-> TRUE]})

SpecOptions == InitOptions /\ [][Next]_vars

\* runs over the commands of nested parsers, with help enabled or disabled
\* at each level
ChainTokens == {echo, deep, LONG_FLAG_PREFIX \o bogus}

InitChain == InitWith(ChainTokens, AllHelps)

SpecChain == InitChain /\ [][Next]_vars

\* runs over Shared commands and their nested commands
SharedTokens ==
    {sub, one, two, echo, LONG_FLAG_PREFIX \o HELP_COMMAND_NAME}

InitShared == InitWith(SharedTokens, SameHelps)

SpecShared == InitShared /\ [][Next]_vars

\* runs over flags and negated flags of a string and a boolean option, the
\* empty string and a negative number
ValueTokens ==
    {LONG_FLAG_PREFIX \o foo, NEGATED_FLAG_PREFIX \o foo,
     LONG_FLAG_PREFIX \o verbose, NEGATED_FLAG_PREFIX \o verbose,
     <<>>, <<"-", "1">>}

InitValues == InitWith(ValueTokens, {[p \in Parsers |-> TRUE]})

SpecValues == InitValues /\ [][Next]_vars

\* runs over the flag of the help command and a flag that no schema declares,
\* by programs that construct the root parser from one of RegisterSchemas and
\* whose calls of the constructor and of nest() are observed
RegisterTokens ==
    {LONG_FLAG_PREFIX \o HELP_COMMAND_NAME, LONG_FLAG_PREFIX \o bogus}

InitRegister ==
    /\ parsers = [p \in Parsers |->
                     Constructor(Definition(p, [q \in Parsers |-> TRUE])).self]
    /\ stack = <<>>
    /\ log = <<>>
    /\ outcome = NotRun
    /\ call = NoCall
    /\ tokens = RegisterTokens
    /\ registered = [NoRegistration EXCEPT !.observed = TRUE]
    /\ probe = NoProbe

SpecRegister == InitRegister /\ [][NextRegister]_vars

\* calls of the functions of the flag grammar with every string of at most
\* MaxFlagLen characters of FlagAlphabet
InitFlags == InitWith({}, {[p \in Parsers |-> TRUE]})

SpecFlags == InitFlags /\ [][NextFlags]_vars

\* calls of ARRAY(STRING) and of BOOLEAN with undefined and with every string
\* of at most MaxValueLen characters
InitConvert == InitWith({}, {[p \in Parsers |-> TRUE]})

SpecConvert == InitConvert /\ [][NextConvert]_vars

\* src/src/parser/option.ts: an options object whose option foo has the
\* alias bar and the short name f
ALIAS_OPTIONS ==
    <<Entry(foo, [OptionDefinition(STRING_TYPE, Str(foobar), <<<<"f">>>>)
                     EXCEPT !.alias = <<<<"b", "a", "r">>>>]),
      Entry(verbose, OptionDefinition(BOOLEAN_TYPE, Bool(FALSE), <<>>))>>

\* a definition of the root parser with ALIAS_OPTIONS
ALIAS_DEFINITION ==
    IsolatedCommandDefinition("ALIAS_DEFINITION", "CLI", cli, ALIAS_OPTIONS,
                              <<>>, <<>>)

\* runs of a root parser constructed from ALIAS_DEFINITION over the long
\* name, the alias, the short name and the negated forms of one option and
\* a value
RepeatTokens ==
    {LONG_FLAG_PREFIX \o foo, SHORT_FLAG_PREFIX \o <<"f">>,
     LONG_FLAG_PREFIX \o <<"b", "a", "r">>, NEGATED_FLAG_PREFIX \o foo,
     NEGATED_FLAG_PREFIX \o <<"b", "a", "r">>, <<"x">>}

InitRepeat ==
    /\ parsers = [p \in Parsers |->
                     IF p = "cli" THEN Constructor(ALIAS_DEFINITION).self
                     ELSE Constructor(Definition(p, [q \in Parsers |-> TRUE])).self]
    /\ stack = <<>>
    /\ log = <<>>
    /\ outcome = NotRun
    /\ call = NoCall
    /\ tokens = RepeatTokens
    /\ registered = NoRegistration
    /\ probe = NoProbe

SpecRepeat == InitRepeat /\ [][Next]_vars

\* runs over the names of the three parsers by programs that nest a parser
\* more than once
NestTokens == {cli, echo, deep}

InitNest == InitWith(NestTokens, {[p \in Parsers |-> TRUE]})

SpecNest == InitNest /\ [][NextNest]_vars

\* an Isolated command that is matched as a flag and has the short name h,
\* which the builtin help command has too
DEEP_FLAG_COMMAND ==
    [DEEP_COMMAND(TRUE) EXCEPT !.asFlag = TRUE,
                               !.short = <<charAt0(HELP_COMMAND_NAME)>>]

\* runs over the flags of the command deep, a command and a value
CollideTokens ==
    {LONG_FLAG_PREFIX \o deep, SHORT_FLAG_PREFIX \o charAt0(HELP_COMMAND_NAME),
     echo, <<"x">>}

\* cli, echo and the parser of DEEP_FLAG_COMMAND, before any call of nest();
\* the calls of nest() and their errors are recorded
InitCollide ==
    /\ parsers = [p \in Parsers |->
                     Constructor(IF p = "deep" THEN DEEP_FLAG_COMMAND
                                 ELSE Definition(p, [q \in Parsers |-> TRUE])).self]
    /\ stack = <<>>
    /\ log = <<>>
    /\ outcome = NotRun
    /\ call = NoCall
    /\ tokens = CollideTokens
    /\ registered = [NoRegistration EXCEPT !.observed = TRUE]
    /\ probe = NoProbe

SpecCollide == InitCollide /\ [][NextNest]_vars

\* runs over a Shared command, the flag of the help command, the flag and
\* the negated flag of an option and a value
ForwardTokens ==
    {sub, LONG_FLAG_PREFIX \o HELP_COMMAND_NAME, LONG_FLAG_PREFIX \o foo,
     NEGATED_FLAG_PREFIX \o foo, <<"x">>}

InitForward == InitWith(ForwardTokens, {[p \in Parsers |-> TRUE]})

SpecForward == InitForward /\ [][Next]_vars

\* where the innermost run() is; every step of run() changes it
Position ==
    <<Len(stack),
      IF stack = <<>> THEN "" ELSE Top.pc,
      IF stack = <<>> THEN 0 ELSE Top.i>>

\* the same runs when every step of run() that can be taken is taken and
\* every handler returns or throws
SpecNestFair ==
    /\ SpecNest
    /\ WF_Position(Scan)
    /\ WF_Position(ScanEnd)
    /\ WF_Position(Dispatch)
    /\ WF_Position(HandlerReturn)
    /\ WF_Position(Catch)
    /\ WF_Position(HelpReturn)
    /\ WF_Position(Settle)

\* runs over the flags and negated flags of a name and an alias, a short
\* flag and a value, by programs that construct the root parser from one of
\* OptionSchemas
SchemaTokens ==
    {LONG_FLAG_PREFIX \o foo, NEGATED_FLAG_PREFIX \o foo,
     LONG_FLAG_PREFIX \o <<"b", "a", "r">>, NEGATED_FLAG_PREFIX \o <<"b", "a", "r">>,
     SHORT_FLAG_PREFIX \o <<"f">>, <<"x">>}

InitSchema ==
    /\ parsers = [p \in Parsers |->
                     Constructor(Definition(p, [q \in Parsers |-> TRUE])).self]
    /\ stack = <<>>
    /\ log = <<>>
    /\ outcome = NotRun
    /\ call = NoCall
    /\ tokens = SchemaTokens
    /\ registered = [NoRegistration EXCEPT !.observed = TRUE]
    /\ probe = NoProbe

SpecSchema == InitSchema /\ [][NextSchema]_vars

\* two runs of the root parser over a flag with a value, a flag that no
\* schema declares and a Shared command
RerunTokens ==
    {LONG_FLAG_PREFIX \o foo, <<"x">>, LONG_FLAG_PREFIX \o bogus, sub}

InitRerun == InitWith(RerunTokens, SameHelps)

SpecRerun == InitRerun /\ [][NextRerun]_vars

\* a run of the root parser, and a second one during a suspension of the
\* handler, over a flag with a value and a flag that no schema declares
ReenterTokens == {LONG_FLAG_PREFIX \o foo, <<"x">>, LONG_FLAG_PREFIX \o bogus}

InitReenter == InitWith(ReenterTokens, SameHelps)

SpecReenter == InitReenter /\ [][NextReenter]_vars

---------------------------------------------------------------------------
(* What the claims speak of.                                               *)

\* the calls of run() whose scan has completed without an error and whose
\* handler or nested run() has not thrown
Scanned == { k \in DOMAIN stack :
                stack[k].pc \in {"dispatch", "handler", "await", "resolved"} }

\* the flag tokens that a definition declares for the option under key name:
\* the long name, its negated form and the short names (the schemas declare
\* no alias and hide nothing)
DeclaredFlags(definition, name) ==
    LET option == Lookup(definition.options, name)
    IN {LONG_FLAG_PREFIX \o name, NEGATED_FLAG_PREFIX \o name}
       \cup { SHORT_FLAG_PREFIX \o option.short[i] : i \in DOMAIN option.short }

\* the tokens of a call's arguments array that this parser scans: all of
\* them, or those before the token of a matched Isolated command
ScannedTokens(k) ==
    LET self == parsers[stack[k].parser]
        match == stack[k].commandMatch
    IN IF match # Undefined /\ self._commands[match.name].type = "ISOLATED"
       THEN SubSeq(stack[k].argv, 1, Len(stack[k].argv) - Len(match.argv) - 1)
       ELSE stack[k].argv

\* config(), options() and arguments() of parser p as a caller gets them
ConfigOf(p) == Accessor(parsers[p], <<"config">>)

OptionsOf(p) == Accessor(parsers[p], <<"options">>)

ArgumentsOf(p) == Accessor(parsers[p], <<"arguments">>)

---------------------------------------------------------------------------
(* C1: after every scan that completes without error, config() has exactly *)
(* the declared option names as keys; an option none of whose flags occurs *)
(* in the input has its declared default in config(), an option whose flag *)
(* was scanned has in config() the value that options() holds for it.      *)
C1_ConfigMergesDefaultsAndOptions ==
    \A k \in Scanned :
        LET p == stack[k].parser
            definition == parsers[p].definition
            names == Keys(definition.options)
        IN /\ ConfigOf(p).error = Undefined
           /\ OptionsOf(p).error = Undefined
           /\ DOMAIN ConfigOf(p).value = names
           /\ DOMAIN OptionsOf(p).value \subseteq names
           /\ \A name \in names :
                /\ Range(stack[k].argv) \cap DeclaredFlags(definition, name) = {}
                       => ConfigOf(p).value[name] = Lookup(definition.options, name).default
                /\ Range(ScannedTokens(k)) \cap DeclaredFlags(definition, name) # {}
                       => name \in DOMAIN OptionsOf(p).value
                /\ name \in DOMAIN OptionsOf(p).value
                       => ConfigOf(p).value[name] = OptionsOf(p).value[name]

\* a scan of cli has given foo the value x and left verbose out
C1_Witness ==
    \E k \in Scanned :
        /\ stack[k].parser = "cli"
        /\ LONG_FLAG_PREFIX \o foo \in Range(stack[k].argv)
        /\ ConfigOf("cli").value[foo] = Str(<<"x">>)
        /\ verbose \notin DOMAIN OptionsOf("cli").value
        /\ ConfigOf("cli").value[verbose] = Bool(FALSE)

---------------------------------------------------------------------------
(* C10: a string, number or list option given through its negated flag     *)
(* has its declared default in config() after the scan.                    *)
C10_NegatedFlagGivesDefault ==
    \A k \in Scanned :
        LET p == stack[k].parser
            definition == parsers[p].definition
        IN \A name \in Keys(definition.options) :
              LET option == Lookup(definition.options, name)
              IN /\ option.parse # BOOLEAN_TYPE
                 /\ Range(ScannedTokens(k)) \cap DeclaredFlags(definition, name)
                        = {NEGATED_FLAG_PREFIX \o name}
                 => ConfigOf(p).value[name] = option.default

---------------------------------------------------------------------------
(* Help and errors.                                                        *)

\* the definition of parser p leaves the help command enabled
HasHelp(p) == Lookup(parsers[p].definition.commands, HELP_COMMAND_NAME) # Null

\* the events of a log that are calls of console.error made by run() of p
ConsoleErrors(events, p) ==
    { i \in DOMAIN events : events[i].ev = "console.error" /\ events[i].parser = p }

\* the events of a log that are calls of the handler h with parser p
HandlerCalls(events, h, p) ==
    { i \in DOMAIN events : /\ events[i].ev = "handler"
                            /\ events[i].handler = h
                            /\ events[i].parser = p }

\* a parse error has reached the catch block of run() of a parser with help
RaisedWithHelp ==
    /\ stack # <<>>
    /\ Top.pc = "catch"
    /\ IsParserError(Top.error)
    /\ HasHelp(Top.parser)

\* a parse error has reached the catch block of run() of a parser without help
RaisedWithoutHelp ==
    /\ stack # <<>>
    /\ Top.pc = "catch"
    /\ IsParserError(Top.error)
    /\ ~HasHelp(Top.parser)

---------------------------------------------------------------------------
(* C2: when the scan or the dispatch inside run() raises a parse error and *)
(* the parser has a help command, the next step sets the state to DONE,    *)
(* then emits the error to the diagnostic stream, then calls the help      *)
(* handler with this parser; when that handler returns run() rejects with  *)
(* a SilentError.  Each happens once per run(), run() never rejects with   *)
(* the parse error and a run() that recovered never resolves.              *)
C2_Step ==
    /\ RaisedWithHelp =>
          /\ parsers'[Top.parser].state = "DONE"
          /\ log' = log \o <<Event("state = DONE", Top.parser, "", Undefined),
                             Event("console.error", Top.parser, "", Top.error),
                             Event("handler", Top.parser, "HELP", Undefined)>>
          /\ Len(stack') = Len(stack)
          /\ stack'[Len(stack)].pc = "help"
    /\ (stack # <<>> /\ Top.pc = "help") =>
          /\ Len(stack') = Len(stack)
          /\ stack'[Len(stack)].pc = "rejected"
          /\ stack'[Len(stack)].error.class = "SilentError"
          /\ \A i \in (Len(log) + 1)..Len(log') : log'[i].ev = "console.log"
    /\ \A k \in DOMAIN stack' :
          LET frame == stack'[k]
          IN /\ frame.pc = "rejected" /\ HasHelp(frame.parser)
                    => ~IsParserError(frame.error)
             /\ frame.pc = "resolved" => ConsoleErrors(log', frame.parser) = {}
    /\ \A p \in Parsers :
          /\ Cardinality(ConsoleErrors(log', p)) <= 1
          /\ Cardinality(HandlerCalls(log', "HELP", p)) <= 1

C2_HelpRecovery == [][C2_Step]_vars

\* the root run() was rejected with a SilentError after deep raised a parse
\* error that only cli could recover
C2_Witness ==
    /\ outcome.status = "rejected"
    /\ outcome.error = SilentError("cli")
    /\ ~HasHelp("echo") /\ ~HasHelp("deep")
    /\ parsers["deep"].state = "OPTION"
    /\ ConsoleErrors(log, "cli") # {}

---------------------------------------------------------------------------
(* C3: a flag token that is not a flag of a declared option raises the     *)
(* invalid-option parse error naming the command of the scanning parser;   *)
(* in a parser without help the catch block passes a parse error on as it  *)
(* is, without a log entry or a state change, the root run() rejects with  *)
(* it, and a parser without help never emits and never calls help.         *)
C3_Step ==
    /\ ( /\ stack # <<>>
         /\ Top.pc = "scan"
         /\ Top.i <= Len(Top.argv)
         /\ LET self == parsers[Top.parser]
                curr == Top.argv[Top.i]
            IN /\ \/ self.state = "OPTION"
                  \/ /\ self.state \in {"COMMAND", "SHARED"}
                     /\ curr \notin DOMAIN self._commandLookup
               /\ isFlag(curr)
               /\ \A name \in Keys(self.definition.options) :
                     curr \notin DeclaredFlags(self.definition, name) )
       => /\ stack'[Len(stack)].pc = "catch"
          /\ stack'[Len(stack)].error =
                INVALID_OPTION(Top.argv[Top.i], parsers[Top.parser].definition.name)
    /\ RaisedWithoutHelp =>
          /\ stack' = SetTop([Top EXCEPT !.pc = "rejected"])
          /\ log' = log
          /\ parsers' = parsers
    /\ (Len(stack) = 1 /\ Top.pc = "rejected") =>
          outcome' = [status |-> "rejected", error |-> Top.error]
    /\ \A i \in DOMAIN log' :
          ~HasHelp(log'[i].parser) =>
              /\ log'[i].ev \notin {"console.error", "state = DONE"}
              /\ log'[i].handler # "HELP"

C3_InvalidOptionWithoutHelp == [][C3_Step]_vars

\* cli without help has rejected with the invalid-option error of --bogus
C3_Witness ==
    /\ ~HasHelp("cli")
    /\ outcome.status = "rejected"
    /\ outcome.error = INVALID_OPTION(LONG_FLAG_PREFIX \o bogus, cli)
    /\ log = <<>>

---------------------------------------------------------------------------
(* Chains of nested parsers.                                               *)

\* how deep below the root a parser is nested
Depth(p) == CASE p = "cli" -> 0 [] p = "echo" -> 1 [] p = "deep" -> 2

\* the parsers whose run() was called
Ran == { p \in Parsers : parsers[p].state # "INITIAL" }

\* the deepest of a non-empty set of parsers
Deepest(ps) == CHOOSE p \in ps : \A q \in ps : Depth(q) <= Depth(p)

\* the calls of console.error and of the help handler, by any parser
Recoveries == { i \in DOMAIN log : \/ log[i].ev = "console.error"
                                   \/ /\ log[i].ev = "handler"
                                      /\ log[i].handler = "HELP" }

---------------------------------------------------------------------------
(* C4: in a chain of nested parsers an error raised at the deepest level   *)
(* that ran is recovered at most once.  When the root run() rejects with a *)
(* SilentError, the deepest parser that ran and has help has emitted one   *)
(* parse error and called its help handler once, and no other parser has   *)
(* emitted or called help; when the root run() rejects with a parse error, *)
(* no parser that ran has help and nothing was emitted and no help handler *)
(* called.  A SilentError reaching a catch block is passed on as it is.    *)
C4_Settled ==
    outcome.status = "rejected" =>
        LET enabled == { p \in Ran : HasHelp(p) }
        IN CASE outcome.error.class = "ParserError" ->
                   /\ enabled = {}
                   /\ Recoveries = {}
             [] outcome.error.class = "SilentError" ->
                   /\ enabled # {}
                   /\ outcome.error = SilentError(Deepest(enabled))
                   /\ \A p \in Parsers :
                         LET n == IF p = Deepest(enabled) THEN 1 ELSE 0
                         IN /\ Cardinality(ConsoleErrors(log, p)) = n
                            /\ Cardinality(HandlerCalls(log, "HELP", p)) = n
                   /\ \A i \in ConsoleErrors(log, Deepest(enabled)) :
                         log[i].error.class = "ParserError"
             [] OTHER -> Recoveries = {}

C4_Step ==
    /\ C4_Settled'
    /\ (stack # <<>> /\ Top.pc = "catch" /\ Top.error.class = "SilentError") =>
          /\ stack' = SetTop([Top EXCEPT !.pc = "rejected"])
          /\ log' = log
          /\ parsers' = parsers

C4_RecoveredOnceAtNearestHelp == [][C4_Step]_vars

\* deep raised a parse error without help, echo recovered it and cli, which
\* has help too, passed the SilentError of echo on
C4_Witness ==
    /\ outcome.status = "rejected"
    /\ outcome.error = SilentError("echo")
    /\ HasHelp("cli") /\ HasHelp("echo") /\ ~HasHelp("deep")
    /\ "deep" \in Ran
    /\ ConsoleErrors(log, "cli") = {}

---------------------------------------------------------------------------
(* C5: a call of arguments(), options() or config() on a parser whose      *)
(* state is not DONE throws the usage error of that accessor, and no call  *)
(* of an accessor, throwing or returning, changes a parser's state or      *)
(* result.                                                                 *)
C5_Step ==
    call'.parser \in Parsers =>
        /\ parsers[call'.parser].state # "DONE" =>
              call'.error = UsageError(<<Str(<<"Invalid usage.">>),
                                         Str(<<"CliParser">>), Str(call'.api)>>)
        /\ parsers' = parsers

C5_AccessorsNeedDone == [][C5_Step]_vars

\* config() threw on cli after run() was rejected with the parse error of a
\* scan that failed
C5_Witness ==
    /\ outcome.status = "rejected"
    /\ outcome.error = INVALID_OPTION(LONG_FLAG_PREFIX \o bogus, cli)
    /\ parsers["cli"].state \notin {"INITIAL", "DONE"}
    /\ call.parser = "cli"
    /\ call.api = <<"config">>
    /\ call.error = INVALID_USAGE(parsers["cli"], <<"config">>)

---------------------------------------------------------------------------
(* C6: a call of arguments(), options() or config() on a parser that has   *)
(* not completed a scan (its result is still the initial empty object)     *)
(* throws.                                                                 *)
C6_NoResultBeforeCompletedScan ==
    (call.parser \in Parsers /\ DOMAIN parsers[call.parser].result = {})
        => call.error # Undefined

---------------------------------------------------------------------------
(* Commands.                                                               *)

\* the commands that the definition of a parser declares, the builtin ones
\* included unless replaced
DeclaredCommands(self) == SpreadEntries(BUILTIN_COMMANDS, self.definition.commands)

\* the parser and the handler that a successful run() of parser p has to
\* call, by the command that its scan matched
RECURSIVE ExpectedHandler(_)
ExpectedHandler(p) ==
    LET self == parsers[p]
        matchedCommand == self.result.command
    IN IF matchedCommand = Undefined
       THEN <<p, self.definition.handler>>
       ELSE IF matchedCommand.name \in DOMAIN self._parsers
       THEN ExpectedHandler(self._parsers[matchedCommand.name])
       ELSE <<p, Lookup(DeclaredCommands(self), matchedCommand.name).handler>>

\* the calls of command handlers in the log
AllHandlerCalls == { i \in DOMAIN log : log[i].ev = "handler" }

---------------------------------------------------------------------------
(* C7: a run() that resolved has called exactly one command handler: the   *)
(* handler of the matched Shared command with this parser, or the handler  *)
(* reached through run() of the parser of the matched Isolated command     *)
(* with that parser, whose options() and config() have only keys of its    *)
(* own schema, or this parser's own handler with itself if no command      *)
(* matched.                                                                *)
C7_OneHandlerPerRun ==
    outcome.status = "resolved" =>
        /\ Cardinality(AllHandlerCalls) = 1
        /\ \A i \in AllHandlerCalls :
              LET p == log[i].parser
                  names == Keys(parsers[p].definition.options)
              IN /\ <<p, log[i].handler>> = ExpectedHandler("cli")
                 /\ DOMAIN ConfigOf(p).value = names
                 /\ DOMAIN OptionsOf(p).value \subseteq names
                 /\ \A name \in DOMAIN OptionsOf(p).value :
                       ConfigOf(p).value[name] = OptionsOf(p).value[name]

\* cli.run(["echo", "--loud"]) resolved after the handler of echo was called
\* with the parser of echo, whose config has loud = true
C7_Witness ==
    /\ outcome.status = "resolved"
    /\ parsers["cli"].result.command # Undefined
    /\ parsers["cli"].result.command.name = echo
    /\ \E i \in AllHandlerCalls : log[i].parser = "echo" /\ log[i].handler = "ECHO"
    /\ ConfigOf("echo").value[loud] = Bool(TRUE)
    /\ DOMAIN OptionsOf("echo").value = {loud}
    /\ DOMAIN OptionsOf("cli").value = {}

---------------------------------------------------------------------------
(* C8: for a Shared command P that declares a nested Shared command C, a   *)
(* run of [P, C] completes its scan with C as the matched command, and the *)
(* handler that run() calls is the handler of C with this parser.          *)
C8_NestedSharedCommandAccepted ==
    \A k \in DOMAIN stack :
        LET p == stack[k].parser
            self == parsers[p]
            declared == self.definition.commands
            shared == { P \in Keys(declared) : Lookup(declared, P) # Null }
        IN \A P \in shared : \A C \in Keys(Lookup(declared, P).commands) :
              (stack[k].argv = <<P, C>> /\ stack[k].pc # "scan") =>
                  /\ DOMAIN self.result # {}
                  /\ self.result.command.name = C
                  /\ \A i \in AllHandlerCalls :
                        /\ log[i].parser = p
                        /\ log[i].handler = Lookup(Lookup(declared, P).commands, C).handler

---------------------------------------------------------------------------
(* C9: in state SHARED a token of a registered command that the previously *)
(* matched Shared command does not declare among its commands raises the   *)
(* invalid-command error with the name of the previous command as parent,  *)
(* and the pending command match stays as it was.                          *)
C9_Step ==
    ( /\ stack # <<>>
      /\ Top.pc = "scan"
      /\ Top.i <= Len(Top.argv)
      /\ parsers[Top.parser].state = "SHARED"
      /\ Top.argv[Top.i] \in DOMAIN parsers[Top.parser]._commandLookup
      /\ Lookup(Lookup(DeclaredCommands(parsers[Top.parser]),
                       Top.commandMatch.name).commands,
                parsers[Top.parser]._commandLookup[Top.argv[Top.i]])
             \in {Undefined, Null} )
    => /\ Len(stack') = Len(stack)
       /\ stack'[Len(stack)].pc = "catch"
       /\ stack'[Len(stack)].error =
             INVALID_COMMAND(parsers[Top.parser]._commandLookup[Top.argv[Top.i]],
                             Str(Top.commandMatch.name))
       /\ stack'[Len(stack)].commandMatch = Top.commandMatch

C9_UndeclaredChildIsInvalid == [][C9_Step]_vars

\* the scan of ["sub", "echo"] has thrown at echo, the match still being sub
C9_Witness ==
    /\ stack # <<>>
    /\ Top.pc = "catch"
    /\ Top.argv[1] = sub
    /\ Top.error = INVALID_COMMAND(echo, Str(sub))
    /\ Top.commandMatch.name = sub
    /\ parsers[Top.parser].state = "SHARED"

---------------------------------------------------------------------------
(* Option values.                                                          *)

\* parse(argv) as a whole, from a parser and the frame of a call: the loop
\* up to its end or to the first throw
RECURSIVE ScanFrom(_, _)
ScanFrom(self, frame) ==
    IF frame.pc # "scan"
    THEN [self |-> self, frame |-> frame]
    ELSE IF frame.i > Len(frame.argv)
    THEN ScanDone(self, frame)
    ELSE LET step == ScanToken(self, frame)
         IN ScanFrom(step.self, step.frame)

\* the result that parse(argv) of parser p creates
parse(p, argv) ==
    ScanFrom([parsers[p] EXCEPT !.state = "COMMAND"], Frame(p, argv)).self.result

\* the positions of the scanned tokens that are flags of the option name
FlagPositions(k, name) ==
    { j \in DOMAIN ScannedTokens(k) :
        ScannedTokens(k)[j] \in DeclaredFlags(parsers[stack[k].parser].definition, name) }

\* the greatest number of a non-empty set of numbers
Last(js) == CHOOSE j \in js : \A i \in js : i <= j

---------------------------------------------------------------------------
(* C11: when the last scanned flag of an option is its negated flag,       *)
(* config()[name] is what the option's converter returns for undefined.    *)
(* For verbose (boolean, default false) the input [--no-verbose] gives the *)
(* config of the empty input, with verbose = false, and [--verbose] gives  *)
(* verbose = true.                                                         *)
C11_NegatedFlagGivesAbsentResult ==
    \A k \in Scanned :
        LET p == stack[k].parser
            definition == parsers[p].definition
            tokens_ == ScannedTokens(k)
        IN /\ \A name \in Keys(definition.options) :
                 ( /\ FlagPositions(k, name) # {}
                   /\ isNegatedFlag(tokens_[Last(FlagPositions(k, name))]) )
                 => ConfigOf(p).value[name] =
                        ApplyParser(Lookup(definition.options, name).parse, Undefined)
           /\ stack[k].argv = <<NEGATED_FLAG_PREFIX \o verbose>> =>
                 /\ ConfigOf(p).value[verbose] = Bool(FALSE)
                 /\ ConfigOf(p).value = parse(p, <<>>).config
           /\ stack[k].argv = <<LONG_FLAG_PREFIX \o verbose>> =>
                 ConfigOf(p).value[verbose] = Bool(TRUE)

\* cli has scanned [--no-verbose]: options() has verbose = false
C11_Witness ==
    \E k \in Scanned :
        /\ stack[k].parser = "cli"
        /\ stack[k].argv = <<NEGATED_FLAG_PREFIX \o verbose>>
        /\ DOMAIN OptionsOf("cli").value = {verbose}
        /\ OptionsOf("cli").value[verbose] = Bool(FALSE)
        /\ ConfigOf("cli").value[foo] = Str(foobar)

---------------------------------------------------------------------------
(* C12: for a string option the config() after a scan of its flag with the *)
(* empty string as value equals the config() after a scan of the empty     *)
(* input.                                                                  *)
C12_EmptyStringIsAbsent ==
    \A k \in Scanned :
        LET p == stack[k].parser
            definition == parsers[p].definition
        IN \A name \in Keys(definition.options) :
              ( /\ Lookup(definition.options, name).parse = STRING_TYPE
                /\ stack[k].argv = <<LONG_FLAG_PREFIX \o name, <<>>>> )
              => ConfigOf(p).value = parse(p, <<>>).config

---------------------------------------------------------------------------
(* C13: after a scan of a negated flag followed by one token that is no    *)
(* flag, that token is the positional argument in arguments().             *)
C13_NegatedFlagConsumesOnlyItself ==
    \A k \in Scanned :
        LET p == stack[k].parser
            argv == stack[k].argv
        IN ( /\ Len(argv) = 2
             /\ isNegatedFlag(argv[1])
             /\ argv[1] \in DOMAIN parsers[p]._optionLookup
             /\ ~isFlag(argv[2]) )
           => ArgumentsOf(p).value = <<Str(argv[2])>>

---------------------------------------------------------------------------
(* C14: a scan step at a flag of an option that is not negated hands the   *)
(* next token to the converter and goes on two tokens further if there is  *)
(* a next token and it is no flag (-1 is no flag); if not, it hands the    *)
(* empty string to the converter and goes on at the next token, the flag,  *)
(* or ends the loop if there is none.                                      *)
C14_Step ==
    ( /\ stack # <<>>
      /\ Top.pc = "scan"
      /\ Top.i <= Len(Top.argv)
      /\ parsers[Top.parser].state \in {"COMMAND", "SHARED", "OPTION"}
      /\ Top.argv[Top.i] \notin DOMAIN parsers[Top.parser]._commandLookup
      /\ Top.argv[Top.i] \in DOMAIN parsers[Top.parser]._optionLookup
      /\ ~isNegatedFlag(Top.argv[Top.i]) )
    => LET i == Top.i
           argv == Top.argv
           name == parsers[Top.parser]._optionLookup[argv[i]]
           convert == parsers[Top.parser]._options[name].parse
           after == stack'[Len(stack)]
           hasValue == /\ i + 1 <= Len(argv)
                       /\ ~LONG_FLAG_REGEXP(argv[i + 1])
                       /\ ~SHORT_FLAG_REGEXP(argv[i + 1])
       IN /\ after.pc = "scan"
          /\ name \in DOMAIN after.options
          /\ IF hasValue
             THEN /\ after.options[name] = ApplyParser(convert, Str(argv[i + 1]))
                  /\ after.i = i + 2
             ELSE /\ after.options[name] = ApplyParser(convert, Str(<<>>))
                  /\ IF i + 1 <= Len(argv)
                     THEN after.i = i + 1
                     ELSE after.i > Len(argv)

C14_FlagTakesNextNonFlag == [][C14_Step]_vars

\* the scan of [--foo, -1] has handed -1 to the converter of foo
C14_Witness ==
    /\ stack # <<>>
    /\ Top.argv = <<LONG_FLAG_PREFIX \o foo, <<"-", "1">>>>
    /\ Top.i = 3
    /\ foo \in DOMAIN Top.options
    /\ Top.options[foo] = Str(<<"-", "1">>)

---------------------------------------------------------------------------
(* Positional arguments.                                                   *)

\* how many tokens at the start of a sequence are tokens of commands
CommandTokens(self, toks) ==
    Last({0} \cup { n \in DOMAIN toks :
                      \A j \in 1..n : toks[j] \in DOMAIN self._commandLookup })

\* the positions of the positional tokens of a sequence: no flags, not among
\* the command tokens at the start, and not the value of an option, which is
\* the token that is no flag and follows a flag that is not negated
Positionals(self, toks) ==
    { j \in DOMAIN toks :
        /\ j > CommandTokens(self, toks)
        /\ ~isFlag(toks[j])
        /\ ~ ( /\ j - 1 > CommandTokens(self, toks)
               /\ isFlag(toks[j - 1])
               /\ ~isNegatedFlag(toks[j - 1]) ) }

\* the n-th number of a set of numbers
Nth(js, n) == CHOOSE j \in js : Cardinality({ i \in js : i < j }) = n - 1

\* the positional tokens in input order, the n-th converted by the n-th
\* declared argument or kept as it is
ExpectedArguments(self, toks) ==
    [n \in 1..Cardinality(Positionals(self, toks)) |->
        LET token == Str(toks[Nth(Positionals(self, toks), n)])
        IN IF n <= Len(self._arguments)
           THEN ApplyParser(self._arguments[n].parse, token)
           ELSE token]

\* the arguments arrays got from argv by moving a flag and its value to
\* another place between, before or after the positional tokens
Moved(self, argv) ==
    { moved \in UNION { [1..Len(argv) -> Range(argv)] } :
        \E j \in 1..(Len(argv) - 1) :
            LET rest == SubSeq(argv, 1, j - 1) \o SubSeq(argv, j + 2, Len(argv))
            IN /\ argv[j] \in DOMAIN self._optionLookup
               /\ ~isNegatedFlag(argv[j])
               /\ ~isFlag(argv[j + 1])
               /\ Positionals(self, rest) = DOMAIN rest
               /\ \E m \in 0..Len(rest) :
                     moved = SubSeq(rest, 1, m) \o <<argv[j], argv[j + 1]>>
                                 \o SubSeq(rest, m + 1, Len(rest)) }

---------------------------------------------------------------------------
(* C15: after a scan arguments() holds, in input order, the tokens that    *)
(* are no flags, were not matched as commands and were not taken as the    *)
(* value of an option, the n-th converted by the n-th declared argument or *)
(* kept as a string; and parse() of the input with a flag and its value    *)
(* moved to another place among the positional tokens gives the same       *)
(* arguments and options.                                                  *)
C15_ArgumentsInInputOrder ==
    \A k \in Scanned :
        LET p == stack[k].parser
            self == parsers[p]
        IN /\ ArgumentsOf(p).value = ExpectedArguments(self, ScannedTokens(k))
           /\ \A moved \in Moved(self, stack[k].argv) :
                 /\ parse(p, moved).arguments = ArgumentsOf(p).value
                 /\ parse(p, moved).options = OptionsOf(p).value

---------------------------------------------------------------------------
(* C16, as the specification states it: a scan whose first token is no     *)
(* flag and no token of a registered command raises a parse error, so it   *)
(* never completes.                                                        *)
C16_UnrecognizedCommandRaises ==
    \A k \in DOMAIN stack :
        ( /\ stack[k].argv # <<>>
          /\ ~isFlag(stack[k].argv[1])
          /\ stack[k].argv[1] \notin DOMAIN parsers[stack[k].parser]._commandLookup )
        => k \notin Scanned

\* error is an invalid-command error
IsInvalidCommand(error) ==
    /\ error.class = "ParserError"
    /\ error.message[1] = Str(<<"Invalid command.">>)

(* C16, corrected: a token in command position that is no flag and no      *)
(* token of a registered command raises nothing: the scanner goes to state *)
(* OPTION and the token is the next positional argument.  The invalid-     *)
(* command error is raised only in state SHARED, at a token of a           *)
(* registered command.                                                     *)
C16_Step ==
    /\ ( /\ stack # <<>>
         /\ Top.pc = "scan"
         /\ Top.i <= Len(Top.argv)
         /\ parsers[Top.parser].state \in {"COMMAND", "SHARED"}
         /\ ~isFlag(Top.argv[Top.i])
         /\ Top.argv[Top.i] \notin DOMAIN parsers[Top.parser]._commandLookup )
       => /\ stack'[Len(stack)].pc = "scan"
          /\ stack'[Len(stack)].i = Top.i + 1
          /\ parsers'[Top.parser].state = "OPTION"
          /\ stack'[Len(stack)].args =
                ExpectedArguments(parsers[Top.parser], SubSeq(Top.argv, 1, Top.i))
    /\ ( /\ stack # <<>>
         /\ Len(stack') = Len(stack)
         /\ stack'[Len(stack)].pc = "catch"
         /\ Top.pc # "catch"
         /\ IsInvalidCommand(stack'[Len(stack)].error) )
       => /\ Top.pc = "scan"
          /\ parsers[Top.parser].state = "SHARED"
          /\ Top.argv[Top.i] \in DOMAIN parsers[Top.parser]._commandLookup

C16_UnmatchedTokenIsPositional == [][C16_Step]_vars

\* the scan of an input that starts with x has taken x as the first
\* positional argument
C16_Witness ==
    /\ stack # <<>>
    /\ Top.pc = "scan"
    /\ Top.argv # <<>>
    /\ Top.argv[1] = <<"x">>
    /\ Top.i = 2
    /\ Top.args = <<Str(<<"x">>)>>
    /\ parsers[Top.parser].state = "OPTION"

---------------------------------------------------------------------------
(* Registration: the tokens that definitions declare.                      *)

\* the flag tokens of the option declared under the key name: the long
\* aliases and, unless hiddenName, the long name; unless noNegation their
\* negated forms; the short names; none at all for a hidden option
DeclaredOptionTokens(name, option) ==
    IF option.hidden THEN {}
    ELSE LET longs == Range(option.alias)
                      \cup (IF option.hiddenName THEN {} ELSE {name})
         IN { LONG_FLAG_PREFIX \o x : x \in longs }
            \cup (IF option.noNegation THEN {}
                  ELSE { NegateFlag(LONG_FLAG_PREFIX \o x) : x \in longs })
            \cup { SHORT_FLAG_PREFIX \o x : x \in Range(option.short) }

\* the match tokens of the command declared under the key name: its name,
\* aliases and short names, prefixed if the command is matched as a flag
DeclaredCommandTokens(name, command) ==
    LET named == Range(command.alias) \cup {name}
        shorts == Range(command.short)
    IN IF command.asFlag
       THEN { LONG_FLAG_PREFIX \o x : x \in named }
            \cup { SHORT_FLAG_PREFIX \o x : x \in shorts }
       ELSE named \cup shorts

\* the commands that a parser constructed from the definition is to hold:
\* the builtin commands and the commands of the definition, a key of the
\* definition replacing the builtin command and null removing it
SchemaCommands(definition) ==
    SelectSeq(SpreadEntries(BUILTIN_COMMANDS, definition.commands),
              LAMBDA e : e.def # Null)

\* two options of the definition share a flag token, two of its commands a
\* match token, or an option a token with a command
SchemaCollides(definition) ==
    LET options == definition.options
        commands == SchemaCommands(definition)
        optionTokens(i) == DeclaredOptionTokens(options[i].key, options[i].def)
        commandTokens(i) == DeclaredCommandTokens(commands[i].key, commands[i].def)
    IN \/ \E i, j \in DOMAIN options :
             i # j /\ optionTokens(i) \cap optionTokens(j) # {}
       \/ \E i, j \in DOMAIN commands :
             i # j /\ commandTokens(i) \cap commandTokens(j) # {}
       \/ \E i \in DOMAIN options, j \in DOMAIN commands :
             optionTokens(i) \cap commandTokens(j) # {}

\* the command of a parser to nest has the name of a command that self
\* holds, or a match token that a command or an option of self has
NestCollides(self, childDefinition) ==
    LET childTokens == DeclaredCommandTokens(childDefinition.name, childDefinition)
    IN \/ childDefinition.name \in DOMAIN self._commands
       \/ \E name \in DOMAIN self._commands :
             childTokens \cap DeclaredCommandTokens(name, self._commands[name]) # {}
       \/ \E name \in DOMAIN self._options :
             childTokens \cap DeclaredOptionTokens(name, self._options[name]) # {}

\* the call failed with a registration error
IsRegisterError(error) == error # Undefined /\ error.class = "RegisterError"

---------------------------------------------------------------------------
(* C17: constructing a parser from a definition in which two options share *)
(* a flag token, two commands share a name or match token, or an option    *)
(* shares a token with a command (the builtin commands included), and      *)
(* calling nest() with a command that collides with what the parser holds, *)
(* throws a registration error out of the call itself, before any scan:    *)
(* no parser has left the state INITIAL and no run is in progress.         *)

C17_Step ==
    registered' # registered =>
        LET call_ == registered'
            collides == IF call_.op = "new"
                        THEN SchemaCollides(call_.definition)
                        ELSE NestCollides(parsers[call_.parser], call_.definition)
        IN collides =>
              /\ IsRegisterError(call_.error)
              /\ \A p \in Parsers : parsers'[p].state = "INITIAL"
              /\ stack' = <<>>
              /\ log' = <<>>
              /\ call_.op = "new" => parsers' = parsers

C17_CollisionRaisesRegisterError == [][C17_Step]_vars

\* the constructor was called with two options that declare the same short
\* name and threw, and likewise nest() with a command that the parser holds
C17_Witness ==
    /\ registered.op = "new"
    /\ \E i, j \in DOMAIN registered.definition.options :
          /\ i # j
          /\ registered.definition.options[i].def.short = <<<<"f">>>>
          /\ registered.definition.options[j].def.short = <<<<"f">>>>
          /\ ~registered.definition.options[i].def.hidden
          /\ ~registered.definition.options[j].def.hidden
    /\ IsRegisterError(registered.error)

---------------------------------------------------------------------------
(* C18: in every parser that was constructed successfully and on which     *)
(* every call of nest() succeeded, no token is a key of both the option    *)
(* lookup and the command lookup, and a key of either lookup is a token of *)
(* exactly one definition that the parser holds: the option, or the        *)
(* command, that the lookup gives for it.                                  *)

C18_Exact ==
    \A p \in Parsers \ registered.failed :
        LET self == parsers[p]
            optionsOf(t) ==
                { n \in DOMAIN self._options :
                    t \in DeclaredOptionTokens(n, self._options[n]) }
            commandsOf(t) ==
                { n \in DOMAIN self._commands :
                    t \in DeclaredCommandTokens(n, self._commands[n]) }
        IN /\ DOMAIN self._optionLookup \cap DOMAIN self._commandLookup = {}
           /\ \A t \in DOMAIN self._optionLookup :
                 optionsOf(t) = {self._optionLookup[t]} /\ commandsOf(t) = {}
           /\ \A t \in DOMAIN self._commandLookup :
                 commandsOf(t) = {self._commandLookup[t]} /\ optionsOf(t) = {}

\* the lookups change in the constructor and in nest() only: the statement
\* holds for the parsers of the initial state and after each of these calls
C18_LookupsDisjointAndExact ==
    C18_Exact /\ [][registered' # registered => C18_Exact']_vars

\* the root parser was constructed from a definition with two options and
\* echo was nested in it, both without error
C18_Witness ==
    /\ registered.op = "nest"
    /\ registered.parser = "cli"
    /\ registered.error = Undefined
    /\ registered.failed = {}
    /\ parsers["cli"].definition \in RegisterSchemas
    /\ Len(parsers["cli"].definition.options) = 2
    /\ DOMAIN parsers["cli"]._parsers # {}

---------------------------------------------------------------------------
(* C19: a parser constructed from a definition whose commands mention      *)
(* neither help nor version holds both builtin commands as Shared          *)
(* commands, under their flags.  With the key set to null the command is   *)
(* not registered: no token gives it and the catch block of run() finds no *)
(* help handler.  With a definition under the key the parser holds the     *)
(* caller's command in place of the builtin one, and run() calls its       *)
(* handler as it calls the handler of any Shared command, when the command *)
(* is matched and when a parse error is recovered.                         *)

\* what the parser holds under the name of a builtin command
C19_Registered ==
    \A p \in Parsers : \A name \in Keys(BUILTIN_COMMANDS) :
        LET self == parsers[p]
            declared == self.definition.commands
            given == Lookup(declared, name)
            expect == IF name \in Keys(declared) THEN given
                      ELSE Lookup(BUILTIN_COMMANDS, name)
        IN IF name \in Keys(declared) /\ given = Null
           THEN /\ name \notin DOMAIN self._commands
                /\ \A t \in DOMAIN self._commandLookup : self._commandLookup[t] # name
                /\ name = HELP_COMMAND_NAME => HelpOf(self) = Undefined
           ELSE /\ name \in DOMAIN self._commands
                /\ self._commands[name].type = "SHARED"
                /\ self._commands[name].handler = expect.handler
                /\ self._commands[name].id = CommandCopyId(expect, name)
                /\ \A t \in DeclaredCommandTokens(name, expect) :
                      t \in DOMAIN self._commandLookup /\ self._commandLookup[t] = name

\* every parser holds them so after each call of the constructor and of
\* nest(), and run() calls the handler of the help command it holds, or none
C19_Step ==
    /\ registered' # registered => C19_Registered'
    /\ stack # <<>> /\ Top.pc = "catch" /\ stack' # stack =>
          LET self == parsers[Top.parser]
              given == Lookup(self.definition.commands, HELP_COMMAND_NAME)
              after == stack'[Len(stack)]
          IN IF given = Null
             THEN after.pc = "rejected" /\ after.error = Top.error /\ log' = log
             ELSE IsParserError(Top.error) =>
                     /\ after.pc = "help"
                     /\ log'[Len(log')] =
                           Event("handler", Top.parser,
                                 self._commands[HELP_COMMAND_NAME].handler, Undefined)
                     /\ given # Undefined => after.handler = given.handler
    /\ stack # <<>> /\ Top.pc = "dispatch" /\ stack' # stack =>
          LET self == parsers[Top.parser]
              matchedCommand == self.result.command
          IN matchedCommand # Undefined =>
                LET given == Lookup(self.definition.commands, matchedCommand.name)
                IN given \notin {Undefined, Null} /\ given.type = "SHARED" =>
                      /\ stack'[Len(stack)].pc = "handler"
                      /\ stack'[Len(stack)].handler = given.handler
                      /\ log' = Append(log, Event("handler", Top.parser,
                                                  given.handler, Undefined))

C19_BuiltinCommandsDefaultDisabledOverridden == [][C19_Step]_vars

\* a run of the flag of the help command on a parser constructed with a help
\* command of the caller has called that command's handler and resolved
C19_Witness ==
    /\ outcome.status = "resolved"
    /\ Lookup(parsers["cli"].definition.commands, HELP_COMMAND_NAME)
          = CUSTOM_HELP_COMMAND
    /\ \E k \in DOMAIN log :
          log[k] = Event("handler", "cli", CUSTOM_HELP_COMMAND.handler, Undefined)

---------------------------------------------------------------------------
(* C20: a string that starts with "--" and a character that is no digit is *)
(* a long flag; a string of two characters, "-" and a character that is no *)
(* digit, is a short flag; "-" followed by digits only, as -1 and -42, is  *)
(* no flag of any kind; and every negated flag is a long flag.             *)

C20_TokenClassification ==
    probe.fn = "flag" =>
        LET value == probe.input
            is == probe.output
        IN /\ (Len(value) >= 3 /\ value[1] = "-" /\ value[2] = "-"
                 /\ value[3] \notin Digits) => is.isLongFlag /\ is.isFlag
           /\ (Len(value) = 2 /\ value[1] = "-" /\ value[2] \notin Digits)
                 => is.isShortFlag /\ is.isFlag
           /\ (Len(value) >= 2 /\ value[1] = "-"
                 /\ \A i \in 2..Len(value) : value[i] \in Digits)
                 => ~is.isFlag /\ ~is.isLongFlag /\ ~is.isShortFlag
                    /\ ~is.isNegatedFlag
           /\ is.isNegatedFlag => is.isLongFlag

\* the functions were called with -42 and none of them took it for a flag
C20_Witness ==
    /\ probe.fn = "flag"
    /\ probe.input = <<"-", "4", "2">>
    /\ ~probe.output.isFlag

---------------------------------------------------------------------------
(* C21: the flag grammar is exact.  isShortFlag holds only for "-" and one *)
(* character that is no digit, isLongFlag only for "--" followed by a      *)
(* character that is no digit, and isFlag holds if and only if one of the  *)
(* two does; so "--" followed by a digit, as --1, is no flag.              *)

C21_FlagGrammarExact ==
    probe.fn = "flag" =>
        LET value == probe.input
            is == probe.output
            short == Len(value) = 2 /\ value[1] = "-" /\ value[2] \notin Digits
            long == Len(value) >= 3 /\ value[1] = "-" /\ value[2] = "-"
                    /\ value[3] \notin Digits
        IN /\ is.isShortFlag => short
           /\ is.isLongFlag => long
           /\ is.isFlag <=> (short \/ long)

---------------------------------------------------------------------------
(* C22: ARRAY(STRING) gives undefined for undefined and for the empty      *)
(* string, and for every other string the array of its pieces between the  *)
(* commas, in order, without the empty pieces (which STRING parses to      *)
(* undefined): [a, b, c] for "a,b,c" and [a, b] for "a,,b".                *)

\* the pieces of s that are not empty: the longest runs of characters other
\* than the comma, from left to right
NonEmptyPieces(s) ==
    LET starts == { i \in 1..Len(s) : s[i] # "," /\ (i = 1 \/ s[i - 1] = ",") }
        end(i) == CHOOSE j \in i..Len(s) :
                      /\ \A k \in i..j : s[k] # ","
                      /\ j = Len(s) \/ s[j + 1] = ","
        start(n) == CHOOSE i \in starts : Cardinality({ j \in starts : j < i }) = n - 1
    IN [n \in 1..Cardinality(starts) |-> Str(SubSeq(s, start(n), end(start(n))))]

C22_ListConverter ==
    (probe.fn = "parse" /\ probe.input.parser = ARRAY(STRING_TYPE)) =>
        LET value == probe.input.value
        IN IF value = Undefined \/ value = Str(<<>>)
           THEN probe.output = Undefined
           ELSE probe.output = Arr(NonEmptyPieces(value.v))

\* ARRAY(STRING) was called with "a,,b" and returned [a, b]
C22_Witness ==
    /\ probe.fn = "parse"
    /\ probe.input = [parser |-> ARRAY(STRING_TYPE),
                      value |-> Str(<<"a", ",", ",", "b">>)]
    /\ probe.output = Arr(<<Str(<<"a">>), Str(<<"b">>)>>)

---------------------------------------------------------------------------
(* C23: BOOLEAN returns false for undefined and for the string "false",    *)
(* and true for every other string, the empty string and "0" included; so  *)
(* a boolean flag that is the last token, or is followed by a flag, for    *)
(* which parse() calls the type parser with the empty string, gives true.  *)

C23_BooleanConverter ==
    (probe.fn = "parse" /\ probe.input.parser = BOOLEAN_TYPE) =>
        LET value == probe.input.value
            false == value = Undefined \/ value = Str(<<"f", "a", "l", "s", "e">>)
        IN /\ probe.output = Bool(~false)
           /\ value = Str(<<>>) =>
                 \A argv \in {<<LONG_FLAG_PREFIX \o verbose>>,
                              <<LONG_FLAG_PREFIX \o verbose, LONG_FLAG_PREFIX \o foo>>} :
                    /\ parse("cli", argv).options[verbose] = probe.output
                    /\ parse("cli", argv).config[verbose] = Bool(TRUE)

\* BOOLEAN was called with the empty string and returned true
C23_Witness ==
    /\ probe.fn = "parse"
    /\ probe.input = [parser |-> BOOLEAN_TYPE, value |-> Str(<<>>)]
    /\ probe.output = Bool(TRUE)

---------------------------------------------------------------------------
(* C24: run() settles only after the handler it called has settled, and    *)
(* the run() of a parent only after the run() of the matched Isolated      *)
(* command has settled, that command's own dispatch included: every run()  *)
(* but the innermost one is waiting for the run() it called, at most one   *)
(* handler is being executed, and a promise settles from the inside out.   *)

\* the calls of run() in which a handler is being executed
InFlight(frames) == { k \in DOMAIN frames : frames[k].pc \in {"handler", "help"} }

C24_Sequential(frames) ==
    /\ \A k \in 1..(Len(frames) - 1) : frames[k].pc = "await"
    /\ Cardinality(InFlight(frames)) <= 1

C24_Step ==
    /\ C24_Sequential(stack')
       \* the promise of a run() settles once what it awaited has settled
    /\ Len(stack') < Len(stack) =>
          /\ Len(stack') = Len(stack) - 1
          /\ Top.pc \in {"resolved", "rejected"}
          /\ InFlight(stack) = {}
    /\ (Len(stack') = Len(stack) /\ stack # <<>>
          /\ stack'[Len(stack)].pc \in {"resolved", "rejected"}
          /\ Top.pc \notin {"resolved", "rejected"}) =>
             Top.pc \in {"handler", "help", "catch"}
       \* a waiting run() goes on only when the run() it awaits has settled
    /\ \A k \in DOMAIN stack :
          (stack[k].pc = "await" /\ k \in DOMAIN stack' /\ stack'[k].pc # "await") =>
             /\ k = Len(stack) - 1
             /\ Top.pc \in {"resolved", "rejected"}
             /\ stack'[k].pc = (IF Top.pc = "resolved" THEN "resolved" ELSE "catch")
       \* the promise given to the caller settles last
    /\ outcome' # outcome /\ outcome'.status \in {"resolved", "rejected"} =>
          Len(stack) = 1 /\ stack' = <<>>

C24_RunSettlesAfterWhatItAwaits == [][C24_Step]_vars

\* the handler of deep is being executed while the run() of cli and the
\* run() of echo wait
C24_Witness ==
    /\ Len(stack) = 3
    /\ Top.pc = "handler"
    /\ Top.parser = "deep"
    /\ stack[1].pc = "await" /\ stack[2].pc = "await"

---------------------------------------------------------------------------
(* C25: when flags of one option occur several times in the scanned        *)
(* tokens, as the same token, as an alias, a short name or a negated form, *)
(* options()[name] and config()[name] are the converted value of the last  *)
(* occurrence.                                                             *)
OccurrencesOf(argv, name, option) ==
    { j \in DOMAIN argv : argv[j] \in DeclaredOptionTokens(name, option) }

ValueOfOccurrence(argv, j) ==
    IF isNegatedFlag(argv[j]) THEN Undefined
    ELSE IF j < Len(argv) /\ ~isFlag(argv[j + 1]) THEN Str(argv[j + 1])
    ELSE Str(<<>>)

C25_LastWriteWins ==
    \A k \in Scanned :
        LET p == stack[k].parser
            definition == parsers[p].definition
            argv == ScannedTokens(k)
        IN \A name \in Keys(definition.options) :
              LET option == Lookup(definition.options, name)
                  js == OccurrencesOf(argv, name, option)
              IN js # {} =>
                   LET converted == ApplyParser(option.parse,
                                        ValueOfOccurrence(argv, Last(js)))
                   IN /\ OptionsOf(p).value[name] = converted
                      /\ ConfigOf(p).value[name] = converted

\* cli has scanned [--foo, -f, x]: foo is written twice, first from the
\* empty value and last from x through the short name
C25_Witness ==
    /\ stack # <<>>
    /\ Top.pc = "handler"
    /\ Top.parser = "cli"
    /\ Top.argv = <<LONG_FLAG_PREFIX \o foo, SHORT_FLAG_PREFIX \o <<"f">>, <<"x">>>>
    /\ OptionsOf("cli").value[foo] = Str(<<"x">>)
    /\ ConfigOf("cli").value[foo] = Str(<<"x">>)

---------------------------------------------------------------------------
(* C26: when a token matches an Isolated command the scanning parser is    *)
(* DONE and scans no later token: the iterations over the later tokens     *)
(* change nothing and raise no error, options() and arguments() are those  *)
(* of the input that ends with the command token, and the run() of the     *)
(* command's parser gets the tokens after the command token, in order and  *)
(* unmodified.                                                             *)
MatchedIsolated(k) ==
    /\ stack[k].commandMatch # Undefined
    /\ parsers[stack[k].parser]._commands[stack[k].commandMatch.name].type = "ISOLATED"

\* the position of the token that matched the Isolated command: the first
\* token that is no token of a Shared command
IsolatedPosition(self, argv) ==
    CHOOSE j \in DOMAIN argv :
        /\ \A i \in 1..(j - 1) :
              /\ argv[i] \in DOMAIN self._commandLookup
              /\ self._commands[self._commandLookup[argv[i]]].type = "SHARED"
        /\ ~ ( /\ argv[j] \in DOMAIN self._commandLookup
               /\ self._commands[self._commandLookup[argv[j]]].type = "SHARED" )

C26_Scanned ==
    \A k \in Scanned :
        MatchedIsolated(k) =>
            LET p == stack[k].parser
                self == parsers[p]
                argv == stack[k].argv
                j == IsolatedPosition(self, argv)
                rest == SubSeq(argv, j + 1, Len(argv))
                alone == parse(p, SubSeq(argv, 1, j))
            IN /\ argv[j] \in DOMAIN self._commandLookup
               /\ self._commandLookup[argv[j]] = stack[k].commandMatch.name
               /\ self.state = "DONE"
               /\ OptionsOf(p).value = alone.options
               /\ ArgumentsOf(p).value = alone.arguments
               /\ self.result.command.argv = rest
               /\ k < Len(stack) =>
                     /\ stack[k + 1].parser = self._parsers[stack[k].commandMatch.name]
                     /\ stack[k + 1].argv = rest

C26_Step ==
    /\ (stack' # stack \/ parsers' # parsers) => C26_Scanned'
    /\ ( /\ stack # <<>>
         /\ Top.pc = "scan"
         /\ MatchedIsolated(Len(stack)) )
       => /\ Len(stack') = Len(stack)
          /\ stack'[Len(stack)].pc \in {"scan", "dispatch"}
          /\ stack'[Len(stack)].error = Undefined
          /\ stack'[Len(stack)].options = Top.options
          /\ stack'[Len(stack)].args = Top.args
          /\ stack'[Len(stack)].commandMatch = Top.commandMatch
          /\ parsers'[Top.parser]._options = parsers[Top.parser]._options

C26_IsolatedMatchEndsScan == [][C26_Step]_vars

\* cli matched echo in [echo, --loud, x] and awaits the run() of echo, which
\* has scanned [--loud, x]; --loud is no option of cli
C26_Witness ==
    /\ Len(stack) = 2
    /\ stack[1].parser = "cli"
    /\ stack[1].pc = "await"
    /\ stack[1].argv = <<echo, LONG_FLAG_PREFIX \o loud, <<"x">>>>
    /\ stack[2].parser = "echo"
    /\ stack[2].pc = "handler"
    /\ stack[2].argv = <<LONG_FLAG_PREFIX \o loud, <<"x">>>>
    /\ LONG_FLAG_PREFIX \o loud \notin DOMAIN parsers["cli"]._optionLookup

---------------------------------------------------------------------------
(* C27: after any constructions and calls of nest() the parsers form a     *)
(* tree: no parser is the child of two different parents and no parser is  *)
(* its own ancestor.                                                       *)
ChildrenOf(p) == Range(parsers[p]._parsers)

ParentsOf(c) == { p \in Parsers : c \in ChildrenOf(p) }

RECURSIVE DescendantsWithin(_, _)
DescendantsWithin(p, n) ==
    IF n = 0 THEN {}
    ELSE ChildrenOf(p)
         \cup UNION { DescendantsWithin(c, n - 1) : c \in ChildrenOf(p) }

C27_OwnershipIsATree ==
    \A c \in Parsers :
        /\ Cardinality(ParentsOf(c)) <= 1
        /\ c \notin DescendantsWithin(c, Cardinality(Parsers))

---------------------------------------------------------------------------
(* C28: within one scan the state only moves forward, from COMMAND to      *)
(* SHARED, from either to OPTION, from any to DONE. Once the scanner is in *)
(* OPTION no token is matched as a command: a bare token equal to a        *)
(* command token becomes the next positional argument or the value of the  *)
(* option whose flag precedes it, and the flag of a command registered     *)
(* with asFlag raises the invalid-option error.                            *)
StateRank(state) ==
    CASE state = "COMMAND" -> 0
      [] state = "SHARED" -> 1
      [] state = "OPTION" -> 2
      [] state = "DONE" -> 3

IsCommandToken(self, token) == token \in DOMAIN self._commandLookup

C28_Iteration ==
    LET p == Top.parser
        self == parsers[p]
        i == Top.i
        argv == Top.argv
        curr == argv[i]
        after == stack'[Len(stack)]
        index == Len(Top.args) + 1
    IN /\ StateRank(parsers'[p].state) >= StateRank(self.state)
       /\ self.state = "OPTION" =>
             /\ parsers'[p].state = "OPTION"
             /\ after.commandMatch = Top.commandMatch
             /\ (IsCommandToken(self, curr) /\ ~isFlag(curr)) =>
                   /\ after.pc = "scan"
                   /\ after.args =
                         Append(Top.args,
                                IF index <= Len(self._arguments)
                                THEN ApplyParser(self._arguments[index].parse, Str(curr))
                                ELSE Str(curr))
             /\ (IsCommandToken(self, curr) /\ isFlag(curr)) =>
                   /\ after.pc = "catch"
                   /\ after.error = INVALID_OPTION(curr, self.definition.name)
       /\ ( /\ after.pc = "scan"
            /\ after.i = i + 2
            /\ i + 1 <= Len(argv)
            /\ IsCommandToken(self, argv[i + 1]) ) =>
             LET name == self._optionLookup[curr]
             IN after.options[name] =
                    ApplyParser(self._options[name].parse, Str(argv[i + 1]))

C28_Step ==
    ( /\ stack # <<>>
      /\ Top.pc = "scan"
      /\ Top.i <= Len(Top.argv)
      /\ Len(stack') = Len(stack) )
    => C28_Iteration

C28_StateOnlyMovesForward == [][C28_Step]_vars

---------------------------------------------------------------------------
(* C29: every iteration of the scan moves the position forward by at least *)
(* one, so a scan takes at most as many iterations as there are tokens;    *)
(* every Isolated dispatch hands a strictly shorter arguments array to the *)
(* child, so the nested calls of run() are at most one more than the       *)
(* tokens of the outermost call; and, handlers returning or throwing, a    *)
(* pending run() settles, also when a parser is nested twice or in itself. *)
C29_Step ==
    /\ ( /\ stack # <<>>
         /\ Top.pc = "scan"
         /\ Top.i <= Len(Top.argv)
         /\ Len(stack') = Len(stack) )
       => /\ stack'[Len(stack)].pc \in {"scan", "catch"}
          /\ stack'[Len(stack)].pc = "scan" => stack'[Len(stack)].i >= Top.i + 1
    /\ ( /\ stack # <<>>
         /\ Len(stack') = Len(stack) + 1 )
       => /\ Len(stack'[Len(stack')].argv) < Len(Top.argv)
          /\ Len(stack') <= Len(stack'[1].argv) + 1

C29_RunSettles ==
    /\ [][C29_Step]_vars
    /\ (outcome.status = "pending") ~> (outcome.status \in {"resolved", "rejected"})

\* cli is nested in itself and has called its own run() twice, for
\* [cli, cli], then [cli], then []
C29_Witness ==
    /\ Len(stack) = 3
    /\ \A k \in DOMAIN stack : stack[k].parser = "cli"
    /\ stack[1].argv = <<cli, cli>>
    /\ Top.argv = <<>>
    /\ Top.pc = "handler"

---------------------------------------------------------------------------
(* C30: an error caught by run() that is no ParserError (the usage error   *)
(* of an accessor, an error of a handler) is thrown again as it is: the   *)
(* catch block calls no help handler, writes nothing to console.error and  *)
(* leaves the parser's state alone, and every run() that awaited the       *)
(* rejected one, up to the caller, is rejected with the same error.        *)
C30_Step ==
    /\ ( /\ stack # <<>>
         /\ Top.pc = "catch"
         /\ ~IsParserError(Top.error) )
       => /\ stack' = SetTop([Top EXCEPT !.pc = "rejected"])
          /\ parsers' = parsers
          /\ log' = log
          /\ outcome' = outcome
    /\ ( /\ stack # <<>>
         /\ Top.pc = "rejected"
         /\ ~IsParserError(Top.error) )
       => /\ parsers' = parsers
          /\ log' = log
          /\ IF Len(stack) = 1
             THEN /\ stack' = <<>>
                  /\ outcome' = [status |-> "rejected", error |-> Top.error]
             ELSE /\ Len(stack') = Len(stack) - 1
                  /\ stack'[Len(stack')].pc = "catch"
                  /\ stack'[Len(stack')].error = Top.error
                  /\ outcome' = outcome

C30_OtherErrorsPropagateUnmodified == [][C30_Step]_vars

\* the handler of echo, two parsers below the caller, threw the usage error
\* of an accessor; the run() of cli was rejected with it, with help enabled
\* in cli, and nothing but the call of the handler was logged
C30_Witness ==
    /\ outcome.status = "rejected"
    /\ outcome.error = INVALID_USAGE(parsers["deep"], <<"config">>)
    /\ HelpOf(parsers["cli"]) # Undefined
    /\ HelpOf(parsers["echo"]) # Undefined
    /\ log = <<Event("handler", "echo", parsers["echo"].definition.handler, Undefined)>>
    /\ parsers["echo"].state = "DONE"

---------------------------------------------------------------------------
(* C31: the tokens of the option lookup that lead to a non-hidden option   *)
(* are exactly -- and each alias, -- and the name unless hiddenName is     *)
(* set, --no- and each of those long names unless noNegation is set, and   *)
(* - and each short name. No short name has a negated form; with           *)
(* hiddenName the tokens --name and --no-name, and with noNegation the     *)
(* token --no-name, do not lead to the option and, being no token of       *)
(* another option, raise the invalid-option error when scanned.            *)
LongNames(name, option) ==
    Range(coerceArray(option.alias)) \cup (IF option.hiddenName THEN {} ELSE {name})

ExpectedOptionTokens(name, option) ==
    { LONG_FLAG_PREFIX \o x : x \in LongNames(name, option) }
    \cup (IF option.noNegation THEN {}
          ELSE { NEGATED_FLAG_PREFIX \o x : x \in LongNames(name, option) })
    \cup { SHORT_FLAG_PREFIX \o x : x \in Range(coerceArray(option.short)) }

LookupTokens(self, name) ==
    { flag \in DOMAIN self._optionLookup : self._optionLookup[flag] = name }

\* the tokens of an option that its flags leave out
SuppressedTokens(name, option) ==
    (IF option.hiddenName
     THEN {LONG_FLAG_PREFIX \o name, NEGATED_FLAG_PREFIX \o name} ELSE {})
    \cup (IF option.noNegation THEN {NEGATED_FLAG_PREFIX \o name} ELSE {})

C31_Exact ==
    \A p \in Parsers :
        \A name \in DOMAIN parsers[p]._options :
            LET option == parsers[p]._options[name]
            IN ~option.hidden =>
                 /\ LookupTokens(parsers[p], name) = ExpectedOptionTokens(name, option)
                 /\ \A x \in Range(coerceArray(option.short)) :
                        NEGATED_FLAG_PREFIX \o x \notin LookupTokens(parsers[p], name)
                 /\ SuppressedTokens(name, option) \cap LookupTokens(parsers[p], name) = {}

C31_Step ==
    /\ C31_Exact'
    /\ ( /\ stack # <<>>
         /\ Top.pc = "scan"
         /\ Top.i <= Len(Top.argv)
         /\ \E name \in DOMAIN parsers[Top.parser]._options :
               /\ ~parsers[Top.parser]._options[name].hidden
               /\ Top.argv[Top.i] \in
                     SuppressedTokens(name, parsers[Top.parser]._options[name])
         /\ \A name \in DOMAIN parsers[Top.parser]._options :
               Top.argv[Top.i] \notin
                   ExpectedOptionTokens(name, parsers[Top.parser]._options[name]) )
       => /\ stack'[Len(stack)].pc = "catch"
          /\ stack'[Len(stack)].error =
                INVALID_OPTION(Top.argv[Top.i], parsers[Top.parser].definition.name)

C31_OptionTokensExact == [][C31_Step]_vars

\* the root parser was constructed with hiddenName and noNegation for foo
\* and the scan of [--bar, x, --foo] has raised the error for --foo
C31_Witness ==
    /\ registered.op = "new"
    /\ registered.error = Undefined
    /\ foo \in DOMAIN parsers["cli"]._options
    /\ parsers["cli"]._options[foo].hiddenName
    /\ parsers["cli"]._options[foo].noNegation
    /\ LookupTokens(parsers["cli"], foo) =
          {LONG_FLAG_PREFIX \o <<"b", "a", "r">>, SHORT_FLAG_PREFIX \o <<"f">>}
    /\ stack # <<>>
    /\ Top.pc = "catch"
    /\ Top.argv = <<LONG_FLAG_PREFIX \o <<"b", "a", "r">>, <<"x">>, LONG_FLAG_PREFIX \o foo>>
    /\ Top.error = INVALID_OPTION(LONG_FLAG_PREFIX \o foo, cli)

---------------------------------------------------------------------------
(* C32: a hidden option has no tokens. After a scan that completed without *)
(* error options() has no entry for it and config() has its declared       *)
(* default under its name; the token -- and its name, when no other        *)
(* definition declares it, raises the invalid-option error.                *)
HiddenOptions(self) ==
    { name \in DOMAIN self._options : self._options[name].hidden }

C32_Hidden ==
    /\ \A p \in Parsers :
          \A name \in HiddenOptions(parsers[p]) : LookupTokens(parsers[p], name) = {}
    /\ \A k \in Scanned :
          LET p == stack[k].parser
          IN \A name \in HiddenOptions(parsers[p]) :
                /\ name \notin DOMAIN OptionsOf(p).value
                /\ ConfigOf(p).value[name] = parsers[p]._options[name].default

C32_Step ==
    /\ C32_Hidden'
    /\ ( /\ stack # <<>>
         /\ Top.pc = "scan"
         /\ Top.i <= Len(Top.argv)
         /\ parsers[Top.parser].state # "DONE"
         /\ \E name \in HiddenOptions(parsers[Top.parser]) :
               Top.argv[Top.i] = LONG_FLAG_PREFIX \o name
         /\ Top.argv[Top.i] \notin DOMAIN parsers[Top.parser]._optionLookup
         /\ Top.argv[Top.i] \notin DOMAIN parsers[Top.parser]._commandLookup )
       => /\ stack'[Len(stack)].pc = "catch"
          /\ stack'[Len(stack)].error =
                INVALID_OPTION(Top.argv[Top.i], parsers[Top.parser].definition.name)

C32_HiddenOptionHasNoTokens == [][C32_Step]_vars

\* the root parser has the hidden option foo and an option bar with the
\* alias foo; its handler runs after the scan of [--foo, x], which gave x to
\* bar and left foo at its default
C32_Witness ==
    /\ registered.op = "new"
    /\ registered.error = Undefined
    /\ HiddenOptions(parsers["cli"]) = {foo}
    /\ stack # <<>>
    /\ Top.pc = "handler"
    /\ Top.argv = <<LONG_FLAG_PREFIX \o foo, <<"x">>>>
    /\ DOMAIN OptionsOf("cli").value = {<<"b", "a", "r">>}
    /\ ConfigOf("cli").value[foo] = Str(foobar)
    /\ ConfigOf("cli").value[<<"b", "a", "r">>] = Str(<<"x">>)

---------------------------------------------------------------------------
(* C33: what run(T2) leaves for the accessors of a parser that has run     *)
(* before is what run(T2) leaves on a parser newly constructed from the    *)
(* same definition: the same arguments, options, config and matched        *)
(* command, or the same usage error.                                       *)

\* the parser p newly constructed and after run(argv): the scan, and the
\* catch block of run() if the scan threw
FreshRun(p, argv) ==
    LET fresh == Constructor(parsers[p].definition).self
        scan == ScanFrom([fresh EXCEPT !.state = "COMMAND"], Frame(p, argv))
    IN IF scan.frame.pc = "catch" /\ HelpOf(scan.self) # Undefined
       THEN [scan.self EXCEPT !.state = "DONE"]
       ELSE scan.self

\* the accessors of two parsers throw alike or return the same result
SameAccess(a, b) ==
    /\ (a.state = "DONE") = (b.state = "DONE")
    /\ a.state = "DONE" =>
          /\ DOMAIN a.result = DOMAIN b.result
          /\ DOMAIN a.result # {} => a.result = b.result

C33_RunDependsOnItsTokensOnly ==
    ( /\ probe.fn = "run"
      /\ stack = <<>>
      /\ outcome.status \in {"resolved", "rejected"} )
    => SameAccess(parsers["cli"], FreshRun("cli", probe.input))

---------------------------------------------------------------------------
(* C34, as stated: while the handler that run(T) dispatched executes, also *)
(* after a suspension during which another run() scanned on the same       *)
(* instance, the accessors of its parser return the result of the scan of  *)
(* T.                                                                      *)
C34_HandlerObservesItsOwnScan ==
    ( /\ stack # <<>>
      /\ Top.pc = "handler" )
    => /\ parsers[Top.parser].state = "DONE"
       /\ parsers[Top.parser].result = parse(Top.parser, Top.argv)

\* parser self after run(argv): the scan, and the catch block of run() if
\* the scan threw
RunOn(self, p, argv) ==
    LET scan == ScanFrom([self EXCEPT !.state = "COMMAND"], Frame(p, argv))
    IN IF scan.frame.pc = "catch" /\ HelpOf(scan.self) # Undefined
       THEN [scan.self EXCEPT !.state = "DONE"]
       ELSE scan.self

\* the handler at the top has gone on after the run() called during its
\* suspension
Resumed == probe.fn = "reenter" /\ Len(stack) = 1

(* C34, amended: the accessors of the parser return what the last run() on *)
(* the instance left. A handler dispatched by run(T) observes the result   *)
(* of the scan of T until another run() scans on the instance; after a     *)
(* suspension during which run(T2) was called it observes the result of T2 *)
(* if that scan completed, the result of T if the scan threw and help is   *)
(* enabled, and the usage error if it threw and help is disabled.          *)
C34_HandlerObservesTheLastScan ==
    ( /\ stack # <<>>
      /\ Top.pc = "handler" )
    => LET p == Top.parser
           fresh == Constructor(parsers[p].definition).self
       IN IF Resumed
          THEN SameAccess(parsers[p], RunOn(RunOn(fresh, p, Top.argv), p, probe.input))
          ELSE /\ parsers[p].state = "DONE"
               /\ parsers[p].result = parse(p, Top.argv)

\* the handler of run([--foo, x]) has gone on after run([]) was called on
\* the parser: config().foo is the default
C34_Witness ==
    /\ Resumed
    /\ Top.pc = "handler"
    /\ Top.argv = <<LONG_FLAG_PREFIX \o foo, <<"x">>>>
    /\ probe.input = <<>>
    /\ parsers["cli"].state = "DONE"
    /\ ConfigOf("cli").value[foo] = Str(foobar)
    /\ parse("cli", Top.argv).config[foo] = Str(<<"x">>)

---------------------------------------------------------------------------
\* a handler starts in this step: the frame at the top gets to the call of
\* a command handler or of the help handler of the catch block
HandlerStarts ==
    /\ stack' # <<>>
    /\ stack'[Len(stack')].pc \in {"handler", "help"}
    /\ IF stack = <<>> THEN TRUE
       ELSE Len(stack') # Len(stack) \/ Top.pc # stack'[Len(stack')].pc

C35_Step ==
    HandlerStarts => parsers'[stack'[Len(stack')].parser].state = "DONE"

(* C35: whenever a handler starts with parser P as its argument (the root  *)
(* handler, the handler of a Shared command, the handler of an Isolated    *)
(* child, the help handler called by the catch block of run()), the state  *)
(* of P is DONE, never COMMAND, SHARED or OPTION.                          *)
C35_HandlerStartsWhenDone == [][C35_Step]_vars

\* the help handler of echo runs in the catch block of echo.run(), which
\* cli.run() awaits; the state of echo is DONE
C35_Witness ==
    /\ Len(stack) = 2
    /\ Top.pc = "help"
    /\ Top.parser = "echo"
    /\ stack[1].pc = "await"
    /\ parsers["echo"].state = "DONE"

---------------------------------------------------------------------------
\* the tokens of the command lookup of parser p that lead to an Isolated
\* command for which p holds no parser
OrphanTokens(p) ==
    LET self == parsers[p]
    IN { token \in DOMAIN self._commandLookup :
           LET name == self._commandLookup[token]
           IN /\ self._commands[name].type = "ISOLATED"
              /\ name \notin DOMAIN self._parsers }

(* C36: in every reachable state of a parser, also after a call of nest()  *)
(* that raised a registration error, every token of the command lookup     *)
(* that leads to an Isolated command has a child parser registered under   *)
(* the name of that command.                                               *)
C36_IsolatedCommandHasParser == \A p \in Parsers : OrphanTokens(p) = {}

---------------------------------------------------------------------------
\* the names under which parser p holds a child parser are names of
\* commands of p
ParsersAreCommands ==
    \A p \in Parsers : DOMAIN parsers[p]._parsers \subseteq DOMAIN parsers[p]._commands

\* the call of nest() recorded by this step, if it was made with a name that
\* a command or a parser of the parent had, threw DUPLICATE_COMMAND for the
\* name and left the parent as it was; no call threw DUPLICATE_PARSER
C37_Step ==
    /\ ParsersAreCommands'
    /\ (registered' # registered /\ registered'.op = "nest") =>
          LET parent == registered'.parser
              name == registered'.definition.name
              inUse == \/ name \in DOMAIN parsers[parent]._commands
                       \/ name \in DOMAIN parsers[parent]._parsers
          IN /\ inUse => /\ registered'.error = DUPLICATE_COMMAND(name, name)
                         /\ parsers' = parsers
             /\ registered'.error # DUPLICATE_PARSER(name, name)

(* C37: the names that have a child parser are a subset of the names of    *)
(* the registered commands; nest() with a name that is in use fails with   *)
(* the duplicate-command registration error before the parser table is     *)
(* touched, and the duplicate-parser registration error is never raised.   *)
C37_ParsersAreCommands == [][C37_Step]_vars

\* echo is nested in cli a second time: the call threw DUPLICATE_COMMAND and
\* cli holds the one parser under echo
C37_Witness ==
    /\ registered.op = "nest"
    /\ registered.parser = "cli"
    /\ registered.child = "echo"
    /\ registered.error = DUPLICATE_COMMAND(echo, echo)
    /\ echo \in DOMAIN parsers["cli"]._parsers

---------------------------------------------------------------------------
\* the token is the name or an alias of the option with the prefix --
IsOwnLongFlag(token, name, option) ==
    token \in { LONG_FLAG_PREFIX \o x : x \in LongNames(name, option) }

\* the token after position i of argv if it is no flag, else the empty
\* string
FollowingValue(argv, i) ==
    IF i < Len(argv) /\ ~isFlag(argv[i + 1]) THEN Str(argv[i + 1]) ELSE Str(<<>>)

\* the scan step at a token that is an option's own long flag and leads to
\* the option writes what the converter returns for the following value
C38_Step ==
    ( /\ stack # <<>>
      /\ Top.pc = "scan"
      /\ Top.i <= Len(Top.argv)
      /\ stack' # stack )
    => LET self == parsers[Top.parser]
           curr == Top.argv[Top.i]
       IN \A name \in DOMAIN self._options :
             ( /\ IsOwnLongFlag(curr, name, self._options[name])
               /\ curr \in DOMAIN self._optionLookup
               /\ self._optionLookup[curr] = name
               /\ curr \notin DOMAIN self._commandLookup )
             => /\ stack'[Len(stack)].pc = "scan"
                /\ name \in DOMAIN stack'[Len(stack)].options
                /\ stack'[Len(stack)].options[name] =
                      ApplyParser(self._options[name].parse,
                                  FollowingValue(Top.argv, Top.i))

(* C38: the converter is fed undefined only for generated negated forms; a *)
(* token that is an option's own name or alias with the prefix -- is fed   *)
(* the following token that is no flag, or the empty string when there is  *)
(* none, for every option name, also names that begin with no-.            *)
C38_OwnLongFlagTakesValue == [][C38_Step]_vars

\* new CliParser(definition) with the builtin commands disabled and one
\* option that is not hidden and has no alias and no short name throws no
\* registration error
C39_Step ==
    ( /\ registered' # registered
      /\ registered'.op = "new"
      /\ registered'.definition.commands = NO_BUILTIN_COMMANDS
      /\ Len(registered'.definition.options) = 1
      /\ registered'.definition.options[1].def = PLAIN_OPTION )
    => registered'.error = Undefined

(* C39: with the builtin commands disabled, constructing a parser whose    *)
(* schema declares a single option that is not hidden and has no alias and *)
(* no short name (negation allowed) raises no registration error, for      *)
(* every option name, also a name that begins with a digit.                *)
C39_SingleOptionRegisters == [][C39_Step]_vars

====
